---- MODULE Spec2Model ----
(***************************************************************************)
(* The circuit breaker that guards TaxCalculator.FetchTaxData              *)
(* (services package, src/benchmark/benchmark.go:316-562).                 *)
(*                                                                         *)
(* NewTaxCalculatorWithFullConfig builds a gobreaker.CircuitBreaker from   *)
(* the Settings at benchmark.go:382-408 and FetchTaxData runs every fetch  *)
(* through cb.Execute (benchmark.go:459-461).  The breaker's own steps     *)
(* (beforeRequest, afterRequest, currentState, setState, toNewGeneration)  *)
(* are those of github.com/sony/gobreaker, the library the program links;  *)
(* each runs under the breaker's mutex and is one atomic action here.      *)
(* Time is counted in seconds.                                             *)
(***************************************************************************)
EXTENDS Integers, Sequences, FiniteSets, TLC

\* ---------------------------------------------------------------- bounds
NumCallers   == 3      \* goroutines calling FetchTaxData concurrently
MaxCalls     == 5      \* calls started in one behaviour
MaxNow       == 4      \* the clock stops here
MaxSeqCalls  == 7      \* calls started in one behaviour of SpecSeq

Callers == 1..NumCallers

\* ------------------------------------------------------------- constants
StateClosed   == "closed"
StateHalfOpen == "half-open"
StateOpen     == "open"
States        == {StateClosed, StateHalfOpen, StateOpen}

\* Settings.Interval (benchmark.go:385): no cyclic clearing of Counts.
Interval == 0
\* gobreaker's Timeout default, used when Settings.Timeout <= 0
\* (the Settings.Timeout of benchmark.go:386).
defaultTimeout == 60
\* time.Time{}: the zero time, before every clock reading.
ZeroTime == -1

ErrNone            == "nil"
ErrOpenState       == "circuit breaker is open"
ErrTooManyRequests == "too many requests"
ErrFetch           == "fetch error"

\* FailureRatio as a fraction <<num, den>>; all are exact in float64.
FailureRatios == {<<0, 1>>, <<1, 2>>, <<1, 1>>}

\* The values tried for the other fields of CircuitBreakerConfig.
\* Timeout 0 is the value gobreaker replaces by defaultTimeout.
RequestThresholds == {1, 2}
Timeouts          == {0, 1, 2}
HalfOpenLimits    == {1, 2}

Configs == [RequestThreshold : RequestThresholds,
            FailureRatio     : FailureRatios,
            Timeout          : Timeouts,
            MaxHalfOpenReqs  : HalfOpenLimits]

ZeroCounts == [Requests |-> 0, TotalSuccesses |-> 0, TotalFailures |-> 0,
               ConsecutiveSuccesses |-> 0, ConsecutiveFailures |-> 0]

VARIABLES
    cbConfig,    \* models.CircuitBreakerConfig given to the constructor
    state,       \* cb.state
    generation,  \* cb.generation
    counts,      \* cb.counts
    expiry,      \* cb.expiry
    openedAt,    \* clock reading of the last transition into Open (history)
    now,         \* the clock, in seconds
    pc,          \* per caller: where it is inside FetchTaxData
    before,      \* per caller: the generation beforeRequest returned
    err,         \* per caller: the error cb.Execute returned
    invoked,     \* per caller: times doFetchTaxData ran in the current call
    trial,       \* per caller: the call in flight was admitted in Half-Open
    calls,       \* calls started so far
    hist,        \* SpecSeq only: the outcomes of the completed operations
    cbEnabled,   \* tc.cbEnabled
    notes,       \* the OnStateChange calls made so far: <<name, from, to>>
    gauge,       \* metrics.CircuitBreakerState of "tax-service"
    mutex,       \* cb.mutex: the caller holding it, or 0
    callback,    \* the OnStateChange call that is running, or << >>
    rejected,    \* metrics.CircuitBreakerRejected
    requests,    \* metrics.CircuitBreakerRequests, by its success label
    errors,      \* metrics.TaxServiceErrors
    salary,      \* CalculateTax: its salary argument
    brackets,    \* CalculateTax: its brackets argument
    result,      \* CalculateTax: what it returned, or NoResult
    upstream,    \* doFetchTaxData: what the HTTP round trip gave
    fetched,     \* doFetchTaxData: what it returned, <<response, error>>
    includeTaxYear, \* h.config.IncludeTaxYear
    request,     \* Handle: the request r
    parsed,      \* Handle: what parseSalary returned, <<salary, year, err>>
    taxCalcURL,  \* Handle: the URL given to FetchTaxData
    returned,    \* Handle: what FetchTaxData returned, <<response, error>>
    reply,       \* Handle: the status and body written to w
    hpc,         \* Handle: where the handler is
    calcTotal,   \* metrics.TaxCalculationTotal
    defaultLogger, \* logger: the enabled and level fields of defaultLogger
    output,      \* logger: the prefixes of the lines written so far
    called,      \* logger: the logging functions called so far
    exited,      \* logger: the process has exited
    config,      \* runBenchmark: its Config argument
    methods,     \* runBenchmark: the requests slice after the shuffle
    jobChan,     \* runBenchmark: the jobs buffered in jobChan
    jobChanClosed, \* runBenchmark: close(jobChan) has run
    results,     \* runBenchmark: the results buffered in the results channel
    resultsClosed, \* runBenchmark: close(results) has run
    wg,          \* runBenchmark: the counter of the WaitGroup
    bpc,         \* runBenchmark: where its goroutine is
    started,     \* runBenchmark: workers started so far
    sent,        \* runBenchmark: jobs sent so far
    benchResults, \* runBenchmark: the BenchmarkResults being collected
    wpc,         \* per worker: where it is
    job,         \* per worker: the job it took from jobChan
    pending,     \* per worker: the RequestResult it is about to publish
    taken,       \* per job: times a worker took it from jobChan (history)
    yielded,     \* per job: results published for it (history)
    panicked     \* a worker has panicked: the process is gone

vars == <<cbConfig, state, generation, counts, expiry, openedAt, now,
          pc, before, err, invoked, trial, calls, hist,
          cbEnabled, notes, gauge, mutex, callback,
          rejected, requests, errors, salary, brackets, result,
          upstream, fetched, includeTaxYear, request, parsed, taxCalcURL,
          returned, reply, hpc, calcTotal,
          defaultLogger, output, called, exited,
          config, methods, jobChan, jobChanClosed, results, resultsClosed,
          wg, bpc, started, sent, benchResults, wpc, job, pending,
          taken, yielded, panicked>>

lockVars   == <<mutex, callback>>
metricVars == <<rejected, requests, errors>>
taxVars    == <<salary, brackets, result>>
fetchVars  == <<upstream, fetched>>
handlerVars == <<includeTaxYear, request, parsed, taxCalcURL, returned, reply,
                 hpc, calcTotal>>
logVars    == <<defaultLogger, output, called, exited>>
benchVars  == <<config, methods, jobChan, jobChanClosed, results,
                resultsClosed, wg, bpc, started, sent, benchResults, wpc,
                job, pending, taken, yielded, panicked>>

\* ------------------------------------------------- settings (382-391)
\* A cap that lets one trial too many through.
maxRequests_PlusOne == cbConfig.MaxHalfOpenReqs + 1

\* Settings.MaxRequests; gobreaker takes 0 as 1.
maxRequests ==
    IF cbConfig.MaxHalfOpenReqs = 0 THEN 1 ELSE cbConfig.MaxHalfOpenReqs

\* Settings.Timeout in seconds; gobreaker takes a value <= 0 as its default.
timeout ==
    IF cbConfig.Timeout <= 0 THEN defaultTimeout ELSE cbConfig.Timeout

\* A ReadyToTrip that needs more than RequestThreshold requests.
ReadyToTrip_AboveThreshold(c) ==
    /\ c.Requests > cbConfig.RequestThreshold
    /\ c.TotalFailures * cbConfig.FailureRatio[2]
           >= cbConfig.FailureRatio[1] * c.Requests

\* Settings.ReadyToTrip: float64(TotalFailures)/float64(Requests) >= FailureRatio
\* and Requests >= RequestThreshold.  0/0 is NaN, which compares false.
ReadyToTrip(c) ==
    /\ c.Requests >= cbConfig.RequestThreshold
    /\ c.Requests # 0
    /\ c.TotalFailures * cbConfig.FailureRatio[2]
           >= cbConfig.FailureRatio[1] * c.Requests

\* ------------------------------------------------- gobreaker.Counts
onRequest(c) == [c EXCEPT !.Requests = @ + 1]

onSuccessCounts(c) ==
    [c EXCEPT !.TotalSuccesses = @ + 1,
              !.ConsecutiveSuccesses = @ + 1,
              !.ConsecutiveFailures = 0]

\* An onFailure that counts the failed call as one more request.
onFailureCounts_CountsRequest(c) ==
    [c EXCEPT !.Requests = @ + 1,
              !.TotalFailures = @ + 1,
              !.ConsecutiveFailures = @ + 1,
              !.ConsecutiveSuccesses = 0]

onFailureCounts(c) ==
    [c EXCEPT !.TotalFailures = @ + 1,
              !.ConsecutiveFailures = @ + 1,
              !.ConsecutiveSuccesses = 0]

\* ------------------------------------------------- gobreaker.CircuitBreaker
\* The breaker's fields as one value, so that the steps compose.
CB == [state |-> state, generation |-> generation,
       counts |-> counts, expiry |-> expiry,
       notes |-> notes, gauge |-> gauge]

\* Settings.Name (381, 383).
cbName == "tax-service"

\* The gauge value OnStateChange records for a state (396-405).
stateValue(s) ==
    CASE s = StateClosed -> 1
      [] s = StateHalfOpen -> 2
      [] s = StateOpen -> 3
      [] OTHER -> 0

\* An OnStateChange that writes the log line and leaves the gauge as it is.
OnStateChange_LogsOnly(cb, name, from, to) ==
    [cb EXCEPT !.notes = Append(@, <<name, from, to>>)]

\* Settings.OnStateChange (392-407): one log line, then the gauge is set.
OnStateChange(cb, name, from, to) ==
    [cb EXCEPT !.notes = Append(@, <<name, from, to>>),
               !.gauge = stateValue(to)]

\* A Before that lets one more second pass.
Before_Late(e, t) == e + 1 < t

\* expiry.Before(t)
Before(e, t) == e < t

\* A toNewGeneration that keeps the old Counts.
toNewGeneration_KeepsCounts(cb, t) ==
    [cb EXCEPT !.generation = @ + 1,
               !.expiry = CASE cb.state = StateClosed -> ZeroTime
                            [] cb.state = StateOpen -> t + timeout
                            [] OTHER -> ZeroTime]

toNewGeneration(cb, t) ==
    [cb EXCEPT !.generation = @ + 1,
               !.counts = ZeroCounts,
               !.expiry = CASE cb.state = StateClosed ->
                                 IF Interval = 0 THEN ZeroTime ELSE t + Interval
                            [] cb.state = StateOpen -> t + timeout
                            [] OTHER -> ZeroTime]

\* A setState that changes the state without calling OnStateChange.
setState_Silent(cb, s, t) ==
    IF cb.state = s THEN cb
    ELSE toNewGeneration([cb EXCEPT !.state = s], t)

\* setState: the new state, a new generation, then the callback.
setState(cb, s, t) ==
    IF cb.state = s THEN cb
    ELSE OnStateChange(toNewGeneration([cb EXCEPT !.state = s], t),
                       cbName, cb.state, s)

\* A currentState that leaves an Open breaker Open whatever the time.
currentState_StaysOpen(cb, t) ==
    IF cb.state = StateClosed /\ cb.expiry # ZeroTime /\ Before(cb.expiry, t)
    THEN toNewGeneration(cb, t) ELSE cb

currentState(cb, t) ==
    CASE cb.state = StateClosed ->
             IF cb.expiry # ZeroTime /\ Before(cb.expiry, t)
             THEN toNewGeneration(cb, t) ELSE cb
      [] cb.state = StateOpen ->
             IF Before(cb.expiry, t) THEN setState(cb, StateHalfOpen, t) ELSE cb
      [] OTHER -> cb

\* An onSuccess that closes the breaker on the first successful trial.
onSuccess_ClosesOnFirst(cb, t) ==
    CASE cb.state = StateClosed ->
             [cb EXCEPT !.counts = onSuccessCounts(@)]
      [] cb.state = StateHalfOpen ->
             setState([cb EXCEPT !.counts = onSuccessCounts(@)], StateClosed, t)
      [] OTHER -> cb

onSuccess(cb, t) ==
    CASE cb.state = StateClosed ->
             [cb EXCEPT !.counts = onSuccessCounts(@)]
      [] cb.state = StateHalfOpen ->
             LET cb1 == [cb EXCEPT !.counts = onSuccessCounts(@)]
             IN  IF cb1.counts.ConsecutiveSuccesses >= maxRequests
                 THEN setState(cb1, StateClosed, t) ELSE cb1
      [] OTHER -> cb

\* An onFailure that treats a failed trial like a failure in Closed.
onFailure_TripsByRatio(cb, t) ==
    LET cb1 == [cb EXCEPT !.counts = onFailureCounts(@)]
    IN  IF cb.state \in {StateClosed, StateHalfOpen} /\ ReadyToTrip(cb1.counts)
        THEN setState(cb1, StateOpen, t)
        ELSE IF cb.state = StateOpen THEN cb ELSE cb1

onFailure(cb, t) ==
    CASE cb.state = StateClosed ->
             LET cb1 == [cb EXCEPT !.counts = onFailureCounts(@)]
             IN  IF ReadyToTrip(cb1.counts)
                 THEN setState(cb1, StateOpen, t) ELSE cb1
      [] cb.state = StateHalfOpen -> setState(cb, StateOpen, t)
      [] OTHER -> cb

\* A beforeRequest that counts the request before it looks at the state.
beforeRequest_CountsFirst(cb, t) ==
    LET cb1 == [currentState(cb, t) EXCEPT !.counts = onRequest(@)]
    IN  IF cb1.state = StateOpen
        THEN [cb |-> cb1, err |-> ErrOpenState]
        ELSE IF cb1.state = StateHalfOpen /\ cb1.counts.Requests > maxRequests
        THEN [cb |-> cb1, err |-> ErrTooManyRequests]
        ELSE [cb |-> cb1, err |-> ErrNone]

\* beforeRequest: the breaker after the step and the error returned.
beforeRequest(cb, t) ==
    LET cb1 == currentState(cb, t)
    IN  IF cb1.state = StateOpen
        THEN [cb |-> cb1, err |-> ErrOpenState]
        ELSE IF cb1.state = StateHalfOpen /\ cb1.counts.Requests >= maxRequests
        THEN [cb |-> cb1, err |-> ErrTooManyRequests]
        ELSE [cb |-> [cb1 EXCEPT !.counts = onRequest(@)], err |-> ErrNone]

\* An afterRequest that counts a completion whatever period it belongs to.
afterRequest_IgnoresGeneration(cb, gen, success, t) ==
    LET cb1 == currentState(cb, t)
    IN  IF success THEN onSuccess(cb1, t) ELSE onFailure(cb1, t)

\* afterRequest(before, success): the breaker after the step.
afterRequest(cb, gen, success, t) ==
    LET cb1 == currentState(cb, t)
    IN  IF cb1.generation # gen THEN cb1
        ELSE IF success THEN onSuccess(cb1, t) ELSE onFailure(cb1, t)

\* Writes a breaker value back to the fields; openedAt follows the
\* transitions into Open.
Store(cb) ==
    /\ state' = cb.state
    /\ generation' = cb.generation
    /\ counts' = cb.counts
    /\ expiry' = cb.expiry
    /\ openedAt' = IF cb.state = StateOpen /\ cb.generation # generation
                   THEN now ELSE openedAt

\* The effects of the OnStateChange calls made in a step of the breaker.
Deliver(cb) ==
    /\ notes' = cb.notes
    /\ gauge' = cb.gauge

\* ------------------------------------------------- FetchTaxData (455-497)
\* No breaker (tc.cb is nil) and no gauge series.
NoState == "none"
NoGauge == 0
\* CalculateTax has not returned.
NoResult == << >>

\* The constructor with circuitBreakerEnabled (379-414): NewCircuitBreaker
\* gives Closed, first generation, no expiry (Interval is 0), and the gauge
\* is set to 1.
NewCircuitBreaker ==
    /\ state = StateClosed
    /\ generation = 1
    /\ counts = ZeroCounts
    /\ expiry = ZeroTime
    /\ gauge = stateValue(StateClosed)

\* The constructor without it: lines 379-414 are skipped.
NoCircuitBreaker ==
    /\ state = NoState
    /\ generation = 0
    /\ counts = ZeroCounts
    /\ expiry = ZeroTime
    /\ gauge = NoGauge

\* CalculateTax is not being called.
NoCalculation ==
    /\ salary = 0
    /\ brackets = << >>
    /\ result = NoResult

\* A field of a JSON object as json.Unmarshal meets it: missing, null, an
\* array of objects (items), or a value that does not decode into a slice
\* of structs ("bad": a string, a number, an array of strings).
Field(kind, items) == [kind |-> kind, items |-> items]
MissingField == Field("missing", << >>)

\* A response body: text that is not JSON (the empty body is the text ""),
\* the JSON null, a JSON value that is neither null nor an object
\* ("array"), or a JSON object with its errors and tax_brackets fields.
Body(kind, text, errs, bs) ==
    [kind |-> kind, text |-> text, errors |-> errs, tax_brackets |-> bs]
EmptyBody == Body("text", "", MissingField, MissingField)

\* What http.NewRequest, client.Do and ioutil.ReadAll give: NewRequest
\* fails, Do fails, or a response with its status, its body, and whether
\* reading the body fails.
RoundTrip(kind, status, body, readErr) ==
    [kind |-> kind, status |-> status, body |-> body, readErr |-> readErr]
NoResponse == RoundTrip("none", 0, EmptyBody, FALSE)

\* doFetchTaxData is not running and has not returned.
NotFetched ==
    /\ upstream = NoResponse
    /\ fetched = << >>

\* A request: its method, the salary and year of its URL query and of its
\* form body ("" when absent), and whether r.ParseForm fails on the body.
Request(method, qs, qy, fs, fy, formErr) ==
    [Method |-> method, querySalary |-> qs, queryYear |-> qy,
     formSalary |-> fs, formYear |-> fy, formErr |-> formErr]
NoRequest == Request("", "", "", "", "", FALSE)

\* The handler has served no request.
NoRequestHandled ==
    /\ request = NoRequest
    /\ parsed = << >>
    /\ taxCalcURL = << >>
    /\ returned = << >>
    /\ reply = << >>
    /\ hpc = "idle"
    /\ calcTotal = 0

\* ------------------------------------------------- logger
\* (src/logger/logger.go)
\* LogLevel (17-21).
LevelNone  == 0
LevelError == 1
LevelWarn  == 2
LevelInfo  == 3
LevelDebug == 4

\* init() (46-52): the default logger is enabled, at level INFO.
LoggerInitialized ==
    /\ defaultLogger = [enabled |-> TRUE, level |-> LevelInfo]
    /\ output = << >>
    /\ called = << >>
    /\ exited = FALSE

\* ------------------------------------------------- benchmark: values
\* (src/benchmark/benchmark.go)
MaxRequests == 2
MaxWorkers  == 2

Workers == 1..MaxWorkers
JobIndexes == 1..MaxRequests

\* Config (16-27): the fields runBenchmark and worker read.
Config(n, c, get, host) ==
    [NumRequests |-> n, Concurrency |-> c, GetPercent |-> get, Host |-> host]

\* A job in jobChan: the method, and its position in the requests slice.
Job(i, method) == [index |-> i, method |-> method]
NoJob == Job(0, "")

\* RequestResult (30-36): Error is whether it is non-nil; index is the job
\* it answers.
RequestResult(i, method, status, error) ==
    [index |-> i, Method |-> method, StatusCode |-> status, Error |-> error]
NoRequestResult == RequestResult(0, "", 0, FALSE)

\* The status codes of the results: 0 is the StatusCode of a result that
\* carries an error.
StatusCodes == {0, 200, 500}

\* BenchmarkResults (39-51): the counts.
BenchmarkResults(total, ok, failed, codes) ==
    [TotalRequests |-> total, SuccessfulRequests |-> ok,
     FailedRequests |-> failed, StatusCodes |-> codes]
NoBenchmarkResults ==
    BenchmarkResults(0, 0, 0, [st \in StatusCodes |-> 0])

\* The channels, the WaitGroup and the workers before any step of
\* runBenchmark.
BenchmarkNotStarted ==
    /\ jobChan = << >>
    /\ jobChanClosed = FALSE
    /\ results = << >>
    /\ resultsClosed = FALSE
    /\ wg = 0
    /\ started = 0
    /\ sent = 0
    /\ benchResults = NoBenchmarkResults
    /\ wpc = [w \in Workers |-> "off"]
    /\ job = [w \in Workers |-> NoJob]
    /\ pending = [w \in Workers |-> NoRequestResult]
    /\ taken = [i \in JobIndexes |-> 0]
    /\ yielded = [i \in JobIndexes |-> 0]
    /\ panicked = FALSE

\* The server does not run the benchmark.
NoBenchmark ==
    /\ config = Config(0, 0, 0, "")
    /\ methods = << >>
    /\ bpc = "off"
    /\ BenchmarkNotStarted

\* The state after construction: no caller is inside FetchTaxData, the
\* counters of the metrics registry are at 0.
InitState ==
    /\ IF cbEnabled THEN NewCircuitBreaker ELSE NoCircuitBreaker
    /\ notes = << >>
    /\ mutex = 0
    /\ callback = << >>
    /\ rejected = 0
    /\ requests = [l \in {"true", "false"} |-> 0]
    /\ errors = 0
    /\ openedAt = ZeroTime
    /\ now = 0
    /\ pc = [c \in Callers |-> "idle"]
    /\ before = [c \in Callers |-> 0]
    /\ err = [c \in Callers |-> ErrNone]
    /\ invoked = [c \in Callers |-> 0]
    /\ trial = [c \in Callers |-> FALSE]
    /\ calls = 0
    /\ hist = << >>
    /\ NotFetched
    /\ NoRequestHandled

Init ==
    /\ cbConfig \in Configs
    /\ cbEnabled = TRUE
    /\ InitState
    /\ LoggerInitialized
    /\ NoBenchmark
    /\ NoCalculation
    /\ includeTaxYear = FALSE

\* A caller enters FetchTaxData: cb.Execute runs beforeRequest and, when it
\* admits the call, goes on to invoke the operation.
BeforeRequest(c) ==
    /\ cbEnabled
    /\ pc[c] = "idle"
    /\ calls' = calls + 1
    /\ LET r == beforeRequest(CB, now)
       IN  /\ Store(r.cb)
           /\ Deliver(r.cb)
           /\ err' = [err EXCEPT ![c] = r.err]
           /\ IF r.err = ErrNone
              THEN /\ pc' = [pc EXCEPT ![c] = "req"]
                   /\ before' = [before EXCEPT ![c] = r.cb.generation]
                   /\ invoked' = [invoked EXCEPT ![c] = 1]
                   /\ trial' = [trial EXCEPT ![c] = (r.cb.state = StateHalfOpen)]
              ELSE /\ pc' = [pc EXCEPT ![c] = "ret"]
                   /\ before' = [before EXCEPT ![c] = 0]
                   /\ invoked' = [invoked EXCEPT ![c] = 0]
                   /\ trial' = trial
    /\ UNCHANGED <<cbConfig, cbEnabled, now>>

\* doFetchTaxData returns (nil error or not) and cb.Execute runs afterRequest.
AfterRequest(c) ==
    /\ cbEnabled
    /\ pc[c] = "req"
    /\ \E success \in BOOLEAN :
          LET cb1 == afterRequest(CB, before[c], success, now)
          IN  /\ Store(cb1)
              /\ Deliver(cb1)
              /\ err' = [err EXCEPT ![c] = IF success THEN ErrNone ELSE ErrFetch]
    /\ pc' = [pc EXCEPT ![c] = "ret"]
    /\ before' = [before EXCEPT ![c] = 0]
    /\ trial' = [trial EXCEPT ![c] = FALSE]
    /\ UNCHANGED <<cbConfig, cbEnabled, now, invoked, calls>>

\* Without a breaker FetchTaxData calls doFetchTaxData directly (485-487).
FetchDirect(c) ==
    /\ ~cbEnabled
    /\ pc[c] = "idle"
    /\ calls' = calls + 1
    /\ pc' = [pc EXCEPT ![c] = "req"]
    /\ invoked' = [invoked EXCEPT ![c] = @ + 1]
    /\ UNCHANGED <<cbConfig, cbEnabled, state, generation, counts, expiry,
                   openedAt, notes, gauge, now, before, err, trial>>

\* ... and doFetchTaxData returns, with a nil error or not.
DirectReturns(c) ==
    /\ ~cbEnabled
    /\ pc[c] = "req"
    /\ \E success \in BOOLEAN :
          err' = [err EXCEPT ![c] = IF success THEN ErrNone ELSE ErrFetch]
    /\ pc' = [pc EXCEPT ![c] = "ret"]
    /\ UNCHANGED <<cbConfig, cbEnabled, state, generation, counts, expiry,
                   openedAt, notes, gauge, now, before, invoked, trial, calls>>

\* A Record that counts a rejection as a failed request as well.
Record_RejectionAsFailure(e) ==
    /\ rejected' = IF e \in {ErrOpenState, ErrTooManyRequests}
                   THEN rejected + 1 ELSE rejected
    /\ requests' = IF e = ErrNone
                   THEN [requests EXCEPT !["true"] = @ + 1]
                   ELSE [requests EXCEPT !["false"] = @ + 1]
    /\ errors' = IF e = ErrFetch THEN errors + 1 ELSE errors

\* A Record that takes the breaker's branch whether or not there is a breaker.
Record_AsEnabled(e) ==
    /\ rejected' = IF e \in {ErrOpenState, ErrTooManyRequests}
                   THEN rejected + 1 ELSE rejected
    /\ requests' = CASE e = ErrNone -> [requests EXCEPT !["true"] = @ + 1]
                     [] e = ErrFetch -> [requests EXCEPT !["false"] = @ + 1]
                     [] OTHER -> requests
    /\ errors' = IF e = ErrFetch THEN errors + 1 ELSE errors

\* A Record that counts a rejection under the rejection counter and, as a
\* failed request, under the request counter too.
Record_RejectionTwice(e) ==
    /\ rejected' = IF e \in {ErrOpenState, ErrTooManyRequests}
                   THEN rejected + 1 ELSE rejected
    /\ requests' = IF e = ErrNone
                   THEN [requests EXCEPT !["true"] = @ + 1]
                   ELSE [requests EXCEPT !["false"] = @ + 1]
    /\ errors' = IF e = ErrFetch THEN errors + 1 ELSE errors

\* The counters FetchTaxData increments for the error e it got (463-481 with
\* the breaker, 489-492 without).
Record(e) ==
    IF cbEnabled
    THEN CASE e \in {ErrOpenState, ErrTooManyRequests} ->
                  /\ rejected' = rejected + 1
                  /\ UNCHANGED <<requests, errors>>
           [] e = ErrNone ->
                  /\ requests' = [requests EXCEPT !["true"] = @ + 1]
                  /\ UNCHANGED <<rejected, errors>>
           [] OTHER ->
                  /\ requests' = [requests EXCEPT !["false"] = @ + 1]
                  /\ errors' = errors + 1
                  /\ UNCHANGED rejected
    ELSE /\ errors' = IF e = ErrNone THEN errors ELSE errors + 1
         /\ UNCHANGED <<rejected, requests>>

\* What FetchTaxData returns for the error e: <<response, error>>.
FetchTaxDataReturn(e) ==
    IF e = ErrNone THEN <<"response", "nil">> ELSE <<"nil", "error">>

\* A Return that tries the operation a second time after a failure.
Return_Retries(c) ==
    /\ pc[c] = "ret"
    /\ IF err[c] = ErrFetch /\ invoked[c] = 1
       THEN /\ pc' = [pc EXCEPT ![c] = "req"]
            /\ invoked' = [invoked EXCEPT ![c] = @ + 1]
            /\ err' = [err EXCEPT ![c] = ErrNone]
            /\ UNCHANGED metricVars
       ELSE /\ Record(err[c])
            /\ pc' = [pc EXCEPT ![c] = "idle"]
            /\ err' = [err EXCEPT ![c] = ErrNone]
            /\ invoked' = [invoked EXCEPT ![c] = 0]
    /\ UNCHANGED <<cbConfig, cbEnabled, state, generation, counts, expiry,
                   openedAt, notes, gauge, now, before, trial, calls>>

\* FetchTaxData records the outcome and returns to its caller.
Return(c) ==
    /\ pc[c] = "ret"
    /\ Record(err[c])
    /\ pc' = [pc EXCEPT ![c] = "idle"]
    /\ err' = [err EXCEPT ![c] = ErrNone]
    /\ invoked' = [invoked EXCEPT ![c] = 0]
    /\ UNCHANGED <<cbConfig, cbEnabled, state, generation, counts, expiry,
                   openedAt, notes, gauge, now, before, trial, calls>>

\* A second passes.
Tick ==
    /\ now < MaxNow
    /\ now' = now + 1
    /\ UNCHANGED <<cbConfig, cbEnabled, state, generation, counts, expiry,
                   openedAt, notes, gauge, pc, before, err, invoked, trial,
                   calls>>

\* Any number of goroutines call FetchTaxData on the one shared breaker.
Next ==
    \/ \E c \in Callers :
          /\ calls < MaxCalls /\ BeforeRequest(c)
          /\ UNCHANGED <<hist, lockVars, metricVars, taxVars, fetchVars, handlerVars, logVars, benchVars>>
    \/ \E c \in Callers :
          AfterRequest(c) /\ UNCHANGED <<hist, lockVars, metricVars, taxVars, fetchVars, handlerVars, logVars, benchVars>>
    \/ \E c \in Callers : Return(c) /\ UNCHANGED <<hist, lockVars, taxVars, fetchVars, handlerVars, logVars, benchVars>>
    \/ Tick /\ UNCHANGED <<hist, lockVars, metricVars, taxVars, fetchVars, handlerVars, logVars, benchVars>>

Spec == Init /\ [][Next]_vars

\* ------------------------------------------------- sequential calls
\* The default configuration of NewTaxCalculatorWithConfig (362-367).
DefaultRequestThreshold == 5
DefaultTimeout          == 60
DefaultMaxHalfOpenReqs  == 100

DefaultConfig == [RequestThreshold |-> DefaultRequestThreshold,
                  FailureRatio     |-> <<1, 2>>,
                  Timeout          |-> DefaultTimeout,
                  MaxHalfOpenReqs  |-> DefaultMaxHalfOpenReqs]

\* One caller, calling again only after the previous call has returned, on a
\* breaker with RequestThreshold 5 and FailureRatio 0.5; hist records whether
\* each invoked operation succeeded.
SeqConfigs == [RequestThreshold : {DefaultRequestThreshold},
               FailureRatio     : {<<1, 2>>},
               Timeout          : {1, 2, DefaultTimeout},
               MaxHalfOpenReqs  : {1, DefaultMaxHalfOpenReqs}]

InitSeq ==
    /\ cbConfig \in SeqConfigs
    /\ cbEnabled = TRUE
    /\ InitState
    /\ LoggerInitialized
    /\ NoBenchmark
    /\ NoCalculation
    /\ includeTaxYear = FALSE

NextSeq ==
    \/ /\ calls < MaxSeqCalls /\ BeforeRequest(1)
       /\ UNCHANGED <<hist, lockVars, metricVars, taxVars, fetchVars, handlerVars, logVars, benchVars>>
    \/ /\ AfterRequest(1) /\ hist' = Append(hist, err'[1] = ErrNone)
       /\ UNCHANGED <<lockVars, metricVars, taxVars, fetchVars, handlerVars, logVars, benchVars>>
    \/ Return(1) /\ UNCHANGED <<hist, lockVars, taxVars, fetchVars, handlerVars, logVars, benchVars>>
    \/ Tick /\ UNCHANGED <<hist, lockVars, metricVars, taxVars, fetchVars, handlerVars, logVars, benchVars>>

SpecSeq == InitSeq /\ [][NextSeq]_vars

\* ------------------------------------------------- the breaker's mutex
\* cb.Execute step by step: beforeRequest and afterRequest each take
\* cb.mutex, do their work, and release it on return; setState calls
\* OnStateChange (392-407) before it returns, so inside the critical section.
\* A step that takes the mutex runs up to the point where either the
\* critical section is about to end or OnStateChange has been called.
LockCallers == {1, 2}

LockConfigs == [RequestThreshold : {1, 2},
                FailureRatio     : {<<1, 2>>, <<1, 1>>},
                Timeout          : {1},
                MaxHalfOpenReqs  : {1, 2}]

InitLock ==
    /\ cbConfig \in LockConfigs
    /\ cbEnabled = TRUE
    /\ InitState
    /\ LoggerInitialized
    /\ NoBenchmark
    /\ NoCalculation
    /\ includeTaxYear = FALSE

\* The OnStateChange call a step of the breaker makes, if it makes one.
Called(cb) ==
    IF cb.notes # notes THEN cb.notes[Len(cb.notes)] ELSE << >>

\* cb.beforeRequest takes the mutex and decides.
LockBefore(c) ==
    /\ cbEnabled
    /\ pc[c] = "idle"
    /\ mutex = 0
    /\ mutex' = c
    /\ calls' = calls + 1
    /\ pc' = [pc EXCEPT ![c] = "before"]
    /\ LET r == beforeRequest(CB, now)
       IN  /\ Store(r.cb)
           /\ callback' = Called(r.cb)
           /\ err' = [err EXCEPT ![c] = r.err]
           /\ before' = [before EXCEPT ![c] =
                             IF r.err = ErrNone THEN r.cb.generation ELSE 0]
           /\ trial' = [trial EXCEPT ![c] =
                            IF r.err = ErrNone
                            THEN r.cb.state = StateHalfOpen ELSE @]
    /\ UNCHANGED <<cbConfig, cbEnabled, now, invoked, notes, gauge>>

\* OnStateChange runs to its end: the log line and the gauge.
RunCallback(c) ==
    /\ mutex = c
    /\ callback # << >>
    /\ Deliver(OnStateChange(CB, callback[1], callback[2], callback[3]))
    /\ callback' = << >>
    /\ UNCHANGED <<cbConfig, cbEnabled, state, generation, counts, expiry,
                   openedAt, now, pc, before, err, invoked, trial, calls,
                   mutex>>

\* An UnlockBefore that goes on to the operation with the mutex still held.
UnlockBefore_KeepsMutex(c) ==
    /\ pc[c] = "before"
    /\ mutex = c
    /\ callback = << >>
    /\ mutex' = IF err[c] = ErrNone THEN c ELSE 0
    /\ IF err[c] = ErrNone
       THEN /\ pc' = [pc EXCEPT ![c] = "req"]
            /\ invoked' = [invoked EXCEPT ![c] = @ + 1]
       ELSE /\ pc' = [pc EXCEPT ![c] = "ret"]
            /\ invoked' = invoked
    /\ UNCHANGED <<cbConfig, cbEnabled, state, generation, counts, expiry,
                   openedAt, now, before, err, trial, calls, notes, gauge,
                   callback>>

\* beforeRequest returns: the mutex is released, and cb.Execute invokes the
\* operation if the call was admitted.
UnlockBefore(c) ==
    /\ pc[c] = "before"
    /\ mutex = c
    /\ callback = << >>
    /\ mutex' = 0
    /\ IF err[c] = ErrNone
       THEN /\ pc' = [pc EXCEPT ![c] = "req"]
            /\ invoked' = [invoked EXCEPT ![c] = @ + 1]
       ELSE /\ pc' = [pc EXCEPT ![c] = "ret"]
            /\ invoked' = invoked
    /\ UNCHANGED <<cbConfig, cbEnabled, state, generation, counts, expiry,
                   openedAt, now, before, err, trial, calls, notes, gauge,
                   callback>>

\* The operation returns and cb.afterRequest takes the mutex.
LockAfter(c) ==
    /\ cbEnabled
    /\ pc[c] = "req"
    /\ mutex = 0
    /\ mutex' = c
    /\ pc' = [pc EXCEPT ![c] = "after"]
    /\ \E success \in BOOLEAN :
          LET cb1 == afterRequest(CB, before[c], success, now)
          IN  /\ Store(cb1)
              /\ callback' = Called(cb1)
              /\ err' = [err EXCEPT ![c] = IF success THEN ErrNone ELSE ErrFetch]
    /\ UNCHANGED <<cbConfig, cbEnabled, now, before, invoked, trial, calls,
                   notes, gauge>>

\* afterRequest returns: the mutex is released.
UnlockAfter(c) ==
    /\ pc[c] = "after"
    /\ mutex = c
    /\ callback = << >>
    /\ mutex' = 0
    /\ pc' = [pc EXCEPT ![c] = "ret"]
    /\ before' = [before EXCEPT ![c] = 0]
    /\ trial' = [trial EXCEPT ![c] = FALSE]
    /\ UNCHANGED <<cbConfig, cbEnabled, state, generation, counts, expiry,
                   openedAt, now, err, invoked, calls, notes, gauge, callback>>

NextLock ==
    \/ \E c \in LockCallers :
          /\ calls < MaxCalls /\ LockBefore(c)
          /\ UNCHANGED <<hist, metricVars, taxVars, fetchVars, handlerVars, logVars, benchVars>>
    \/ \E c \in LockCallers :
          RunCallback(c) /\ UNCHANGED <<hist, metricVars, taxVars, fetchVars, handlerVars, logVars, benchVars>>
    \/ \E c \in LockCallers :
          UnlockBefore(c) /\ UNCHANGED <<hist, metricVars, taxVars, fetchVars, handlerVars, logVars, benchVars>>
    \/ \E c \in LockCallers :
          LockAfter(c) /\ UNCHANGED <<hist, metricVars, taxVars, fetchVars, handlerVars, logVars, benchVars>>
    \/ \E c \in LockCallers :
          UnlockAfter(c) /\ UNCHANGED <<hist, metricVars, taxVars, fetchVars, handlerVars, logVars, benchVars>>
    \/ \E c \in LockCallers : Return(c) /\ UNCHANGED <<hist, lockVars, taxVars, fetchVars, handlerVars, logVars, benchVars>>
    \/ Tick /\ UNCHANGED <<hist, lockVars, metricVars, taxVars, fetchVars, handlerVars, logVars, benchVars>>

SpecLock == InitLock /\ [][NextLock]_vars

\* ------------------------------------------------- calls that keep arriving
\* Two callers of one calculator, each step of cb.Execute atomic, where every
\* operation invoked returns, every FetchTaxData call returns to its caller,
\* and a new call arrives as long as MaxCalls allows one.
LiveArrives ==
    /\ \E c \in LockCallers : calls < MaxCalls /\ BeforeRequest(c)
    /\ UNCHANGED <<hist, lockVars, metricVars, taxVars, fetchVars, handlerVars, logVars, benchVars>>

\* The operation of caller c returns: the HTTP client gives up after its
\* timeout at the latest (509-512).
LiveCompletes(c) ==
    /\ AfterRequest(c)
    /\ UNCHANGED <<hist, lockVars, metricVars, taxVars, fetchVars, handlerVars, logVars, benchVars>>

LiveReturns(c) ==
    /\ Return(c)
    /\ UNCHANGED <<hist, lockVars, taxVars, fetchVars, handlerVars, logVars, benchVars>>

LiveTick ==
    /\ Tick
    /\ UNCHANGED <<hist, lockVars, metricVars, taxVars, fetchVars, handlerVars, logVars, benchVars>>

NextLive ==
    \/ LiveArrives
    \/ \E c \in LockCallers : LiveCompletes(c)
    \/ \E c \in LockCallers : LiveReturns(c)
    \/ LiveTick

Fairness ==
    /\ WF_vars(LiveArrives)
    /\ \A c \in LockCallers : WF_vars(LiveCompletes(c))
    /\ \A c \in LockCallers : WF_vars(LiveReturns(c))

SpecLive == InitLock /\ [][NextLive]_vars /\ Fairness

\* ------------------------------------------------- no breaker
\* NewTaxCalculatorWithFullConfig with circuitBreakerEnabled = false.
InitDisabled ==
    /\ cbConfig \in Configs
    /\ cbEnabled = FALSE
    /\ InitState
    /\ LoggerInitialized
    /\ NoBenchmark
    /\ NoCalculation
    /\ includeTaxYear = FALSE

NextDisabled ==
    \/ \E c \in Callers :
          /\ calls < MaxCalls /\ FetchDirect(c)
          /\ UNCHANGED <<hist, lockVars, metricVars, taxVars, fetchVars, handlerVars, logVars, benchVars>>
    \/ \E c \in Callers :
          DirectReturns(c) /\ UNCHANGED <<hist, lockVars, metricVars, taxVars, fetchVars, handlerVars, logVars, benchVars>>
    \/ \E c \in Callers : Return(c) /\ UNCHANGED <<hist, lockVars, taxVars, fetchVars, handlerVars, logVars, benchVars>>
    \/ Tick /\ UNCHANGED <<hist, lockVars, metricVars, taxVars, fetchVars, handlerVars, logVars, benchVars>>

SpecDisabled == InitDisabled /\ [][NextDisabled]_vars

\* ------------------------------------------------- CalculateTax (420-452)
\* Amounts are whole numbers, rates are counted in twentieths (0.1 is 2,
\* 0.25 is 5), so a tax is counted in twentieths too and an effective rate in
\* thousandths.  A float64 result is <<"num", n>>, NaN or an infinity.
MaxAmount   == 3      \* salary, min and max range up to MaxAmount
MaxBrackets == 2      \* brackets in a list

RateDen == 20

Num(n)  == <<"num", n>>
NaN     == <<"NaN", 0>>
Inf(sg) == <<"Inf", sg>>

Bracket(min, max, rate) == [Min |-> min, Max |-> max, Rate |-> rate]

\* The rates 0.25 and 0.5: every product and sum below is exact in float64.
Rates == {5, 10}

Salaries == -1..MaxAmount

Brackets == [Min : 0..MaxAmount, Max : 0..MaxAmount, Rate : Rates]

BracketLists == UNION {[1..n -> Brackets] : n \in 0..MaxBrackets}

\* The bracket lists and salaries of TestCalculateTax
\* (src/handlers/income_handler.go:141-191).
TestBrackets ==
    <<Bracket(0, 30000, 2), Bracket(30000, 70000, 4), Bracket(70000, 0, 6)>>
TestBracketsFrom1000 ==
    <<Bracket(1000, 30000, 2), Bracket(30000, 70000, 4)>>
TestCases ==
    {<<80000, TestBrackets>>, <<45000, TestBrackets>>,
     <<50000, <<Bracket(0, 100000, 4)>> >>, <<500, TestBracketsFrom1000>>}

\* A taxableAmount that takes the whole bracket whatever the salary.
taxableAmount_WholeBracket(s, b) ==
    IF b.Max # 0 THEN b.Max - b.Min ELSE s - b.Min

\* A taxableAmount that takes nothing from a bracket the salary is above.
taxableAmount_NothingAboveMax(s, b) ==
    IF b.Max # 0
    THEN IF s <= b.Max THEN s - b.Min ELSE 0
    ELSE s - b.Min

\* taxableAmount of one bracket the salary reaches into (430-444).
taxableAmount(s, b) ==
    IF b.Max # 0
    THEN IF s <= b.Max THEN s - b.Min ELSE b.Max - b.Min
    ELSE s - b.Min

\* The loop of 424-448 from bracket i on, with totalTax so far.
RECURSIVE totalTax(_, _, _, _)
totalTax(s, bs, i, total) ==
    IF i > Len(bs) THEN total
    ELSE IF s <= bs[i].Min THEN total
    ELSE totalTax(s, bs, i + 1, total + taxableAmount(s, bs[i]) * bs[i].Rate)

\* math.Round of n/d for d > 0: to the nearest integer, halves away from 0.
Round(n, d) ==
    IF n >= 0 THEN (2 * n + d) \div (2 * d)
    ELSE -((2 * (-n) + d) \div (2 * d))

\* math.Round((totalTax/salary)*1000) / 1000, in thousandths (449).  A
\* float64 division by zero gives NaN for 0/0 and an infinity otherwise.
effectiveRate(total, s) ==
    IF s = 0
    THEN IF total = 0 THEN NaN ELSE Inf(IF total > 0 THEN 1 ELSE -1)
    ELSE IF s > 0 THEN Num(Round(total * 1000, RateDen * s))
    ELSE Num(Round(-total * 1000, RateDen * (-s)))

\* CalculateTax(salary, brackets): <<totalTax, effectiveRate>>.
CalculateTax(s, bs) ==
    LET total == totalTax(s, bs, 1, 0)
    IN  <<Num(total), effectiveRate(total, s)>>

InitTax ==
    /\ cbConfig = DefaultConfig
    /\ cbEnabled = TRUE
    /\ InitState
    /\ LoggerInitialized
    /\ NoBenchmark
    /\ includeTaxYear = FALSE
    /\ \E in \in (Salaries \X BracketLists) \cup TestCases :
          salary = in[1] /\ brackets = in[2]
    /\ result = NoResult

\* CalculateTax is called and returns.
Calculate ==
    /\ result = NoResult
    /\ result' = CalculateTax(salary, brackets)
    /\ UNCHANGED <<salary, brackets>>

NextTax ==
    Calculate
      /\ UNCHANGED <<cbConfig, cbEnabled, state, generation, counts, expiry,
                     openedAt, now, pc, before, err, invoked, trial, calls,
                     hist, notes, gauge, lockVars, metricVars, fetchVars,
                     handlerVars, logVars, benchVars>>

SpecTax == InitTax /\ [][NextTax]_vars

\* ------------------------------------------------- doFetchTaxData (501-562)
StatusOK == 200

\* The statuses a round trip ends with: 200, other 2xx statuses, 4xx, 5xx.
Statuses == {StatusOK, 201, 299, 404, 500}

\* The objects of an errors array and of a tax_brackets array.
ErrorItems ==
    {[code |-> "INTERNAL_SERVER_ERROR", field |-> "", message |-> "Database not found!"],
     [code |-> "INVALID_YEAR", field |-> "year", message |-> "unsupported tax year"]}
BracketItems ==
    {[min |-> 0, max |-> 2, rate |-> 5], [min |-> 2, max |-> 0, rate |-> 10]}

\* Arrays of up to two distinct items.
Arrays(items) ==
    {<< >>} \cup {<<x>> : x \in items}
            \cup {<<p[1], p[2]>> : p \in {q \in items \X items : q[1] # q[2]}}

Fields(items) ==
    {MissingField, Field("null", << >>), Field("bad", << >>)}
        \cup {Field("array", a) : a \in Arrays(items)}

Bodies ==
    {EmptyBody,
     Body("text", "Service Unavailable", MissingField, MissingField),
     Body("null", "null", MissingField, MissingField),
     Body("array", "[]", MissingField, MissingField)}
        \cup {Body("object", "{...}", e, b) :
                e \in Fields(ErrorItems), b \in Fields(BracketItems)}

RoundTrips ==
    {RoundTrip("NewRequest error", 0, EmptyBody, FALSE),
     RoundTrip("Do error", 0, EmptyBody, FALSE)}
        \cup {RoundTrip("response", st, b, r) :
                st \in Statuses, b \in Bodies, r \in BOOLEAN}

\* nil, as a response pointer and as an error.
NilResponse == << >>
NoError     == << >>

\* fmt.Errorf(format, args...): the format and its arguments.
Errorf(format, args) == <<format>> \o args

\* models.TaxCalcError and models.TaxBracket decoded from a JSON object
\* (src/unnamed/part_000: 29-40).
decodeError(o) == [Code |-> o.code, Field |-> o.field, Message |-> o.message]
decodeBracket(o) == Bracket(o.min, o.max, o.rate)

\* json.Unmarshal(body, &v) for a struct v whose one field is a slice of
\* structs decoded by decodeError or decodeBracket: <<slice, ok>>.  null
\* leaves v alone; an object fills the slice from the field, leaving it nil
\* when the field is missing or null; anything else, and a field that is not
\* an array of objects, is an error.
Unmarshal(body, field) ==
    CASE body.kind = "null" -> << << >>, TRUE>>
      [] body.kind = "object" ->
            LET f == body[field]
            IN  CASE f.kind = "array" ->
                       <<[i \in 1..Len(f.items) |->
                            IF field = "errors" THEN decodeError(f.items[i])
                            ELSE decodeBracket(f.items[i])], TRUE>>
                  [] f.kind \in {"missing", "null"} -> << << >>, TRUE>>
                  [] OTHER -> << << >>, FALSE>>
      [] OTHER -> << << >>, FALSE>>

\* len(body) > 0.
NonEmpty(body) == ~(body.kind = "text" /\ body.text = "")

\* The "code: message" strings of the errors, to be joined with "; ".
errorMessages(errs) ==
    [i \in 1..Len(errs) |-> <<errs[i].Code, ": ", errs[i].Message>>]

\* A statusError that never looks at the body.
statusError_BareCode(rt) ==
    Errorf("tax calculator service returned error code: %d", <<rt.status>>)

\* The error for a status other than 200 (520-541).
statusError(rt) ==
    IF ~rt.readErr /\ NonEmpty(rt.body)
    THEN LET errorResponse == Unmarshal(rt.body, "errors")
         IN  IF errorResponse[2] /\ Len(errorResponse[1]) > 0
             THEN Errorf("tax calculator service error: %s",
                         <<errorMessages(errorResponse[1])>>)
             ELSE Errorf("tax calculator service returned: %d - Details: %s",
                         <<rt.status, rt.body>>)
    ELSE Errorf("tax calculator service returned error code: %d",
                <<rt.status>>)

\* A parseResponse that passes an empty bracket list on.
parseResponse_AcceptsEmpty(rt) ==
    LET taxResponse == Unmarshal(rt.body, "tax_brackets")
    IN  IF rt.readErr THEN <<NilResponse, Errorf("ReadAll", << >>)>>
        ELSE IF ~taxResponse[2]
        THEN <<NilResponse,
               Errorf("failed to parse tax calculator response: %v", << >>)>>
        ELSE << <<[TaxBrackets |-> taxResponse[1]]>>, NoError>>

\* Reading and parsing the body of a 200 response (543-561).
parseResponse(rt) ==
    LET taxResponse == Unmarshal(rt.body, "tax_brackets")
    IN  IF rt.readErr THEN <<NilResponse, Errorf("ReadAll", << >>)>>
        ELSE IF ~taxResponse[2]
        THEN <<NilResponse,
               Errorf("failed to parse tax calculator response: %v", << >>)>>
        ELSE IF Len(taxResponse[1]) = 0
        THEN <<NilResponse,
               Errorf("no tax brackets returned from tax calculator", << >>)>>
        ELSE << <<[TaxBrackets |-> taxResponse[1]]>>, NoError>>

\* A doFetchTaxData that reads the body of every 2xx response as brackets.
doFetchTaxData_Any2xx(rt) ==
    CASE rt.kind = "NewRequest error" ->
             <<NilResponse, Errorf("NewRequest", << >>)>>
      [] rt.kind = "Do error" -> <<NilResponse, Errorf("Do", << >>)>>
      [] OTHER ->
             IF rt.status < 200 \/ rt.status > 299
             THEN <<NilResponse, statusError(rt)>>
             ELSE parseResponse(rt)

\* doFetchTaxData(url) for the round trip rt: <<response, error>>.
doFetchTaxData(rt) ==
    CASE rt.kind = "NewRequest error" ->
             <<NilResponse, Errorf("NewRequest", << >>)>>
      [] rt.kind = "Do error" -> <<NilResponse, Errorf("Do", << >>)>>
      [] OTHER ->
             IF rt.status # StatusOK
             THEN <<NilResponse, statusError(rt)>>
             ELSE parseResponse(rt)

\* A calculator that has not fetched yet.
InitFetch ==
    /\ cbConfig = DefaultConfig
    /\ cbEnabled = TRUE
    /\ InitState
    /\ LoggerInitialized
    /\ NoBenchmark
    /\ NoCalculation
    /\ includeTaxYear = FALSE

\* doFetchTaxData runs and returns.
Fetch ==
    /\ fetched = << >>
    /\ \E rt \in RoundTrips :
          /\ upstream' = rt
          /\ fetched' = doFetchTaxData(rt)

NextFetch ==
    Fetch
      /\ UNCHANGED <<cbConfig, cbEnabled, state, generation, counts, expiry,
                     openedAt, now, pc, before, err, invoked, trial, calls,
                     hist, notes, gauge, lockVars, metricVars, taxVars,
                     handlerVars, logVars, benchVars>>

SpecFetch == InitFetch /\ [][NextFetch]_vars

\* ------------------------------------------------- parseSalary
\* (src/handlers/income_handler.go:79-120)
\* The decimal strings of the requests and the numbers they denote:
\* strconv.ParseFloat reads all of them, strconv.Atoi only those without a
\* fraction; "abc" is read by neither.
FloatValue ==
    ("0" :> 0) @@ ("2" :> 2) @@ ("3" :> 3) @@ ("3.0" :> 3) @@ ("-1" :> -1)
        @@ ("2023" :> 2023)
IntValue ==
    ("0" :> 0) @@ ("2" :> 2) @@ ("3" :> 3) @@ ("-1" :> -1) @@ ("2023" :> 2023)

\* <<value, ok>>.
ParseFloat(str) ==
    IF str \in DOMAIN FloatValue THEN <<FloatValue[str], TRUE>>
    ELSE <<0, FALSE>>
Atoi(str) ==
    IF str \in DOMAIN IntValue THEN <<IntValue[str], TRUE>> ELSE <<0, FALSE>>

QueryStrings == {"", "0", "2", "3", "3.0", "-1", "2023", "abc"}
FormStrings  == {"", "2", "2023", "abc"}

Requests ==
    {Request(m, qs, qy, fs, fy, fe) :
        m \in {"GET", "POST", "PUT"}, qs \in QueryStrings, qy \in QueryStrings,
        fs \in FormStrings, fy \in FormStrings, fe \in BOOLEAN}

\* The rest of parseSalary once salaryStr and yearStr are known (99-119).
parseStrings(salaryStr, yearStr) ==
    IF salaryStr = ""
    THEN <<0, 0, Errorf("salary parameter is required", << >>)>>
    ELSE LET sal == ParseFloat(salaryStr)
             year == Atoi(yearStr)
         IN  IF ~sal[2]
             THEN <<0, 0, Errorf("invalid salary format: %v", << >>)>>
             ELSE IF yearStr = "" THEN <<sal[1], 0, NoError>>
             ELSE IF ~year[2]
             THEN <<0, 0, Errorf("invalid year format: %v", << >>)>>
             ELSE <<sal[1], year[1], NoError>>

\* A parseSalary that reads the form of a POST before the query.
parseSalary_FormFirst(r) ==
    IF r.Method = "POST"
    THEN IF r.formErr
         THEN <<0, 0, Errorf("invalid form data: %v", << >>)>>
         ELSE parseStrings(
                  IF r.formSalary = "" THEN r.querySalary ELSE r.formSalary,
                  IF r.formYear = "" THEN r.queryYear ELSE r.formYear)
    ELSE parseStrings(r.querySalary, r.queryYear)

\* parseSalary(r): <<salary, year, err>>.
parseSalary(r) ==
    IF (r.querySalary = "" \/ r.queryYear = "") /\ r.Method = "POST"
    THEN IF r.formErr
         THEN <<0, 0, Errorf("invalid form data: %v", << >>)>>
         ELSE parseStrings(
                  IF r.querySalary = "" THEN r.formSalary ELSE r.querySalary,
                  IF r.queryYear = "" THEN r.formYear ELSE r.queryYear)
    ELSE parseStrings(r.querySalary, r.queryYear)

\* parseSalary is called with a request and returns.
Parse ==
    /\ parsed = << >>
    /\ \E r \in Requests :
          /\ request' = r
          /\ parsed' = parseSalary(r)
    /\ UNCHANGED <<includeTaxYear, taxCalcURL, returned, reply, hpc,
                   calcTotal>>

NextParse ==
    Parse
      /\ UNCHANGED <<cbConfig, cbEnabled, state, generation, counts, expiry,
                     openedAt, now, pc, before, err, invoked, trial, calls,
                     hist, notes, gauge, lockVars, metricVars, taxVars,
                     fetchVars, logVars, benchVars>>

SpecParse == InitFetch /\ [][NextParse]_vars

\* ------------------------------------------------- Handle
\* (src/handlers/income_handler.go:32-77)
\* One goroutine of the HTTP server handles requests one after the other;
\* it is caller 1 of FetchTaxData.  hist records how each request ended.
MaxHandled == 3

BaseURL     == "http://localhost:5001/tax-calculator"
CurrentYear == 2026      \* time.Now().Year()

StatusBadRequest          == 400
StatusInternalServerError == 500

\* The requests and round trips the handler meets here.
HandlerRequests ==
    {Request("GET", "3", "", "", "", FALSE),
     Request("GET", "3", "2023", "", "", FALSE),
     Request("GET", "3", "-1", "", "", FALSE),
     Request("GET", "0", "", "", "", FALSE),
     Request("POST", "", "", "2", "2023", FALSE),
     Request("GET", "", "2023", "", "", FALSE),
     Request("GET", "abc", "", "", "", FALSE),
     Request("GET", "3", "abc", "", "", FALSE)}

HandlerRoundTrips ==
    {RoundTrip("Do error", 0, EmptyBody, FALSE)}
        \cup {RoundTrip("response", StatusOK,
                        Body("object", "{...}", MissingField, Field("array", a)),
                        FALSE) :
                 a \in {<< >>, <<[min |-> 0, max |-> 2, rate |-> 5]>>,
                        <<[min |-> 0, max |-> 2, rate |-> 5],
                          [min |-> 2, max |-> 0, rate |-> 10]>>}}
        \cup {RoundTrip("response", 500,
                        Body("object", "{...}",
                             Field("array",
                                   <<[code |-> "INTERNAL_SERVER_ERROR",
                                      field |-> "",
                                      message |-> "Database not found!"]>>),
                             MissingField),
                        FALSE),
              RoundTrip("response", 404, EmptyBody, FALSE),
              RoundTrip("response", StatusOK,
                        Body("text", "Service Unavailable",
                             MissingField, MissingField),
                        FALSE)}

HandlerConfigs == [RequestThreshold : {1},
                   FailureRatio     : {<<1, 1>>},
                   Timeout          : {1},
                   MaxHalfOpenReqs  : {1}]

InitHandler ==
    /\ cbConfig \in HandlerConfigs
    /\ cbEnabled \in BOOLEAN
    /\ InitState
    /\ LoggerInitialized
    /\ NoBenchmark
    /\ NoCalculation
    /\ includeTaxYear \in BOOLEAN

\* models.Response (src/unnamed/part_000:48-53).
Response(sal, tax, rate, msg) ==
    [Salary |-> sal, Tax |-> tax, EffectiveRate |-> rate, Error |-> msg]

\* respondWithError(w, statusCode, message) (122-128): what it writes.
respondWithError(statusCode, message) ==
    <<statusCode, Response(Num(0), Num(0), Num(0), message)>>

\* A buildURL that uses the year of the request whatever its sign.
buildURL_AnyYear(year) ==
    IF includeTaxYear THEN <<BaseURL, "/tax-year/", year>> ELSE <<BaseURL>>

\* taxCalcURL for the year parseSalary returned (43-52).
buildURL(year) ==
    IF includeTaxYear
    THEN <<BaseURL, "/tax-year/", IF year > 0 THEN year ELSE CurrentYear>>
    ELSE <<BaseURL>>

\* A Handle that goes on to FetchTaxData, with salary 0 and no year, when
\* parseSalary has returned an error.
Handle_FetchesAnyway ==
    /\ hpc = "idle"
    /\ Len(hist) < MaxHandled
    /\ \E r \in HandlerRequests :
          LET p == parseSalary(r)
          IN  /\ request' = r
              /\ parsed' = p
              /\ returned' = << >>
              /\ reply' = << >>
              /\ taxCalcURL' = buildURL(p[2])
              /\ hpc' = "fetch"
              /\ hist' = hist
    /\ UNCHANGED <<includeTaxYear, calcTotal>>

\* Handle up to the call of FetchTaxData (32-54): parseSalary, and either
\* the 400 reply or the URL.
Handle ==
    /\ hpc = "idle"
    /\ Len(hist) < MaxHandled
    /\ \E r \in HandlerRequests :
          LET p == parseSalary(r)
          IN  /\ request' = r
              /\ parsed' = p
              /\ returned' = << >>
              /\ IF p[3] # NoError
                 THEN /\ reply' = respondWithError(StatusBadRequest, p[3])
                      /\ taxCalcURL' = << >>
                      /\ hpc' = "idle"
                      /\ hist' = Append(hist, "bad request")
                 ELSE /\ reply' = << >>
                      /\ taxCalcURL' = buildURL(p[2])
                      /\ hpc' = "fetch"
                      /\ hist' = hist
    /\ UNCHANGED <<includeTaxYear, calcTotal>>

\* A FetchReturns that takes an error answered with a 4xx status, which the
\* request itself caused, as a success of the operation.
FetchReturns_ClientErrorsPass(c) ==
    /\ cbEnabled
    /\ pc[c] = "req"
    /\ \E rt \in HandlerRoundTrips :
          LET r == doFetchTaxData(rt)
              passes == \/ r[2] = NoError
                        \/ rt.kind = "response" /\ rt.status \in 400..499
              cb1 == afterRequest(CB, before[c], passes, now)
          IN  /\ upstream' = rt
              /\ fetched' = r
              /\ Store(cb1)
              /\ Deliver(cb1)
              /\ err' = [err EXCEPT ![c] = IF r[2] = NoError
                                           THEN ErrNone ELSE ErrFetch]
    /\ pc' = [pc EXCEPT ![c] = "ret"]
    /\ before' = [before EXCEPT ![c] = 0]
    /\ trial' = [trial EXCEPT ![c] = FALSE]
    /\ UNCHANGED <<cbConfig, cbEnabled, now, invoked, calls>>

\* doFetchTaxData makes its round trip and returns, and cb.Execute runs
\* afterRequest with its error.
FetchReturns(c) ==
    /\ cbEnabled
    /\ pc[c] = "req"
    /\ \E rt \in HandlerRoundTrips :
          LET r == doFetchTaxData(rt)
              cb1 == afterRequest(CB, before[c], r[2] = NoError, now)
          IN  /\ upstream' = rt
              /\ fetched' = r
              /\ Store(cb1)
              /\ Deliver(cb1)
              /\ err' = [err EXCEPT ![c] = IF r[2] = NoError
                                           THEN ErrNone ELSE ErrFetch]
    /\ pc' = [pc EXCEPT ![c] = "ret"]
    /\ before' = [before EXCEPT ![c] = 0]
    /\ trial' = [trial EXCEPT ![c] = FALSE]
    /\ UNCHANGED <<cbConfig, cbEnabled, now, invoked, calls>>

\* ... and the same without a breaker (487).
DirectFetchReturns(c) ==
    /\ ~cbEnabled
    /\ pc[c] = "req"
    /\ \E rt \in HandlerRoundTrips :
          LET r == doFetchTaxData(rt)
          IN  /\ upstream' = rt
              /\ fetched' = r
              /\ err' = [err EXCEPT ![c] = IF r[2] = NoError
                                           THEN ErrNone ELSE ErrFetch]
    /\ pc' = [pc EXCEPT ![c] = "ret"]
    /\ UNCHANGED <<cbConfig, cbEnabled, state, generation, counts, expiry,
                   openedAt, notes, gauge, now, before, invoked, trial, calls>>

\* A FetchTaxDataResult that hands on the response of a failed fetch.
FetchTaxDataResult_KeepsResponse(e, r) ==
    IF e = ErrFetch
    THEN << <<[TaxBrackets |-> << >>]>>,
            Errorf("tax calculator service error: %v", <<r[2]>>)>>
    ELSE IF e = ErrNone THEN <<r[1], NoError>>
    ELSE <<NilResponse, Errorf("tax calculator service is unavailable", << >>)>>

\* What FetchTaxData returns for the error e of cb.Execute (or of the direct
\* call) and the result r of doFetchTaxData (463-496).
FetchTaxDataResult(e, r) ==
    CASE e = ErrNone -> <<r[1], NoError>>
      [] e = ErrOpenState ->
             <<NilResponse,
               Errorf("tax calculator service is unavailable (circuit open): too many recent failures",
                      << >>)>>
      [] e = ErrTooManyRequests ->
             <<NilResponse,
               Errorf("tax calculator service is unavailable: too many concurrent requests",
                      << >>)>>
      [] OTHER ->
             <<NilResponse,
               Errorf("tax calculator service error: %v", <<r[2]>>)>>

\* FetchTaxData returns to Handle.
FetchTaxDataReturns ==
    /\ hpc = "fetch"
    /\ Return(1)
    /\ returned' = FetchTaxDataResult(err[1], fetched)
    /\ hpc' = "respond"
    /\ UNCHANGED <<includeTaxYear, request, parsed, taxCalcURL, reply,
                   calcTotal, hist>>

\* Whether encoding/json can encode the float64.
Encodable(f) == f[1] = "num"

\* A Respond that calculates a tax whether or not the fetch failed.
Respond_AlwaysCalculates ==
    /\ hpc = "respond"
    /\ LET bs == IF returned[1] = NilResponse THEN << >>
                 ELSE returned[1][1].TaxBrackets
           r == CalculateTax(parsed[1], bs)
       IN  /\ salary' = parsed[1]
           /\ brackets' = bs
           /\ result' = r
           /\ calcTotal' = calcTotal + 1
           /\ errors' = errors
           /\ reply' = <<StatusOK, Response(Num(parsed[1]), r[1], r[2], NoError)>>
           /\ hist' = Append(hist, "calculated")
    /\ hpc' = "idle"
    /\ UNCHANGED <<includeTaxYear, request, parsed, taxCalcURL, returned>>

\* Handle after FetchTaxData (56-76): on an error it counts it and replies
\* 500; otherwise it calculates, counts the calculation and replies.  The
\* encoder writes nothing when a number is NaN or infinite.
Respond ==
    /\ hpc = "respond"
    /\ IF returned[2] # NoError
       THEN /\ errors' = errors + 1
            /\ reply' = respondWithError(StatusInternalServerError,
                                         <<"Error calculating tax: ", returned[2]>>)
            /\ hist' = Append(hist, IF returned[2][1] = "tax calculator service error: %v"
                                    THEN "fetch failed" ELSE "rejected")
            /\ UNCHANGED <<taxVars, calcTotal>>
       ELSE LET r == CalculateTax(parsed[1], returned[1][1].TaxBrackets)
            IN  /\ salary' = parsed[1]
                /\ brackets' = returned[1][1].TaxBrackets
                /\ result' = r
                /\ calcTotal' = calcTotal + 1
                /\ errors' = errors
                /\ reply' = IF Encodable(r[1]) /\ Encodable(r[2])
                            THEN <<StatusOK,
                                   Response(Num(parsed[1]), r[1], r[2], NoError)>>
                            ELSE <<StatusOK>>
                /\ hist' = Append(hist, "calculated")
    /\ hpc' = "idle"
    /\ UNCHANGED <<includeTaxYear, request, parsed, taxCalcURL, returned>>

breakerVars == <<cbConfig, cbEnabled, state, generation, counts, expiry,
                 openedAt, now, pc, before, err, invoked, trial, calls,
                 notes, gauge>>

NextHandler ==
    \/ Handle
         /\ UNCHANGED <<breakerVars, lockVars, metricVars, taxVars, fetchVars,
                        logVars, benchVars>>
    \/ /\ hpc = "fetch" /\ BeforeRequest(1)
       /\ UNCHANGED <<hist, lockVars, metricVars, taxVars, fetchVars,
                      handlerVars, logVars, benchVars>>
    \/ /\ hpc = "fetch" /\ FetchDirect(1)
       /\ UNCHANGED <<hist, lockVars, metricVars, taxVars, fetchVars,
                      handlerVars, logVars, benchVars>>
    \/ FetchReturns(1)
         /\ UNCHANGED <<hist, lockVars, metricVars, taxVars, handlerVars, logVars, benchVars>>
    \/ DirectFetchReturns(1)
         /\ UNCHANGED <<hist, lockVars, metricVars, taxVars, handlerVars, logVars, benchVars>>
    \/ FetchTaxDataReturns
         /\ UNCHANGED <<lockVars, taxVars, fetchVars, logVars, benchVars>>
    \/ Respond
         /\ UNCHANGED <<breakerVars, lockVars, rejected, requests, fetchVars,
                        logVars, benchVars>>
    \/ Tick
         /\ UNCHANGED <<hist, lockVars, metricVars, taxVars, fetchVars,
                        handlerVars, logVars, benchVars>>

SpecHandler == InitHandler /\ [][NextHandler]_vars

\* ------------------------------------------------- logger: the functions
\* (src/logger/logger.go:74-137, 197-212)
\* The variables of the server outside the logger and the benchmark.
serverVars == <<breakerVars, hist, lockVars, metricVars, taxVars, fetchVars,
                handlerVars>>

MaxLogCalls == 3

\* LevelFromString (197-212): INFO for a string that is no level name.
LevelFromString(level) ==
    CASE level = "NONE"  -> LevelNone
      [] level = "ERROR" -> LevelError
      [] level = "WARN"  -> LevelWarn
      [] level = "INFO"  -> LevelInfo
      [] level = "DEBUG" -> LevelDebug
      [] OTHER -> LevelInfo

\* The values of logging.level in a configuration file.
LevelStrings == {"NONE", "ERROR", "WARN", "INFO", "DEBUG", "TRACE", ""}

\* Configure (74-86), as config.Load calls it.
Configure ==
    /\ ~exited
    /\ \E enabled \in BOOLEAN, level \in LevelStrings :
          defaultLogger' = [enabled |-> enabled,
                            level   |-> LevelFromString(level)]
    /\ UNCHANGED <<output, called, exited>>

\* defaultLogger.logger.Printf(prefix + format, v...): one line.
Printf(prefix) == output' = Append(output, prefix)

\* Debug (103-107).
Debug ==
    /\ ~exited
    /\ Len(called) < MaxLogCalls
    /\ called' = Append(called, "Debug")
    /\ IF defaultLogger.enabled /\ defaultLogger.level >= LevelDebug
       THEN Printf("[DEBUG] ") ELSE output' = output
    /\ UNCHANGED <<defaultLogger, exited>>

\* Info (110-114).
Info ==
    /\ ~exited
    /\ Len(called) < MaxLogCalls
    /\ called' = Append(called, "Info")
    /\ IF defaultLogger.enabled /\ defaultLogger.level >= LevelInfo
       THEN Printf("[INFO] ") ELSE output' = output
    /\ UNCHANGED <<defaultLogger, exited>>

\* Warn (117-121).
Warn ==
    /\ ~exited
    /\ Len(called) < MaxLogCalls
    /\ called' = Append(called, "Warn")
    /\ IF defaultLogger.enabled /\ defaultLogger.level >= LevelWarn
       THEN Printf("[WARN] ") ELSE output' = output
    /\ UNCHANGED <<defaultLogger, exited>>

\* Error (124-128).
Error ==
    /\ ~exited
    /\ Len(called) < MaxLogCalls
    /\ called' = Append(called, "Error")
    /\ IF defaultLogger.enabled /\ defaultLogger.level >= LevelError
       THEN Printf("[ERROR] ") ELSE output' = output
    /\ UNCHANGED <<defaultLogger, exited>>

\* A Fatal that leaves the exit to Fatalf, which runs for an enabled logger
\* only.
Fatal_ExitsWhenEnabled ==
    /\ ~exited
    /\ Len(called) < MaxLogCalls
    /\ called' = Append(called, "Fatal")
    /\ IF defaultLogger.enabled
       THEN Printf("[FATAL] ") /\ exited' = TRUE
       ELSE output' = output /\ exited' = exited
    /\ UNCHANGED defaultLogger

\* Fatal (131-137): Fatalf writes the line and exits; os.Exit(1) follows for
\* a disabled logger.
Fatal ==
    /\ ~exited
    /\ Len(called) < MaxLogCalls
    /\ called' = Append(called, "Fatal")
    /\ IF defaultLogger.enabled THEN Printf("[FATAL] ") ELSE output' = output
    /\ exited' = TRUE
    /\ UNCHANGED defaultLogger

NextLogger ==
    \/ Configure /\ UNCHANGED <<serverVars, benchVars>>
    \/ Debug /\ UNCHANGED <<serverVars, benchVars>>
    \/ Info /\ UNCHANGED <<serverVars, benchVars>>
    \/ Warn /\ UNCHANGED <<serverVars, benchVars>>
    \/ Error /\ UNCHANGED <<serverVars, benchVars>>
    \/ Fatal /\ UNCHANGED <<serverVars, benchVars>>

SpecLogger == InitFetch /\ [][NextLogger]_vars

\* ------------------------------------------------- runBenchmark and worker
\* (src/benchmark/benchmark.go:97-253)
\* The -host values: the default, and one without a scheme, which url.Parse
\* rejects ("first path segment in URL cannot contain colon").
Hosts == {"http://localhost:8080", "localhost:8080"}

\* http.NewRequest(method, host + "/income-salary...", body): whether it
\* returns a request (err == nil).
NewRequest(method, host) == host = "http://localhost:8080"

\* The -get values.
GetPercents == {0, 50, 100}

BenchConfigs ==
    {Config(n, c, g, h) : n \in 0..MaxRequests, c \in 0..MaxWorkers,
                          g \in GetPercents, h \in Hosts}

\* getCount (103).
getCount(cfg) == (cfg.NumRequests * cfg.GetPercent) \div 100

\* The number of "GET" entries of a slice.
Gets(s) == Cardinality({i \in DOMAIN s : s[i] = "GET"})

\* The requests slice after r.Shuffle (102-116): getCount times "GET", the
\* rest "POST", in any order.
Shuffled(cfg) ==
    {s \in [1..cfg.NumRequests -> {"GET", "POST"}] : Gets(s) = getCount(cfg)}

\* The channels made with room for one element less.
capacity_OneLess == config.NumRequests - 1

\* The capacity of jobChan and of the results channel (98, 119).
capacity == config.NumRequests

\* What client.Do gives: an error, or a response with a status.
Outcomes == {<<0, TRUE>>, <<200, FALSE>>, <<500, FALSE>>}

\* runBenchmark is called: the slice is prepared and shuffled, the channels
\* are made.
InitBench ==
    /\ cbConfig = DefaultConfig
    /\ cbEnabled = TRUE
    /\ InitState
    /\ LoggerInitialized
    /\ NoCalculation
    /\ includeTaxYear = FALSE
    /\ config \in BenchConfigs
    /\ methods \in Shuffled(config)
    /\ bpc = "run"
    /\ BenchmarkNotStarted

\* go worker(...) after wg.Add(1) (120-123).
StartWorker ==
    /\ ~panicked
    /\ bpc = "run"
    /\ started < config.Concurrency
    /\ wg' = wg + 1
    /\ wpc' = [wpc EXCEPT ![started + 1] = "range"]
    /\ started' = started + 1
    /\ UNCHANGED <<config, methods, jobChan, jobChanClosed, results,
                   resultsClosed, bpc, sent, benchResults, job, pending,
                   taken, yielded, panicked>>

\* jobChan <- method (128-130): waits while the buffer is full.
Send ==
    /\ ~panicked
    /\ bpc = "run"
    /\ started >= config.Concurrency
    /\ sent < Len(methods)
    /\ Len(jobChan) < capacity
    /\ jobChan' = Append(jobChan, Job(sent + 1, methods[sent + 1]))
    /\ sent' = sent + 1
    /\ UNCHANGED <<config, methods, jobChanClosed, results, resultsClosed,
                   wg, bpc, started, benchResults, wpc, job, pending, taken,
                   yielded, panicked>>

\* close(jobChan) (131).
CloseJobs ==
    /\ ~panicked
    /\ bpc = "run"
    /\ started >= config.Concurrency
    /\ sent = Len(methods)
    /\ jobChanClosed' = TRUE
    /\ bpc' = "wait"
    /\ UNCHANGED <<config, methods, jobChan, results, resultsClosed, wg,
                   started, sent, benchResults, wpc, job, pending, taken,
                   yielded, panicked>>

\* wg.Wait() returns and close(results) (134-135); benchResults is made
\* (140-148).
WaitAndClose ==
    /\ ~panicked
    /\ bpc = "wait"
    /\ wg = 0
    /\ resultsClosed' = TRUE
    /\ benchResults' = BenchmarkResults(config.NumRequests, 0, 0,
                                        [st \in StatusCodes |-> 0])
    /\ bpc' = "collect"
    /\ UNCHANGED <<config, methods, jobChan, jobChanClosed, results, wg,
                   started, sent, wpc, job, pending, taken, yielded,
                   panicked>>

\* One turn of "for result := range results" (151-173).
Collect ==
    /\ ~panicked
    /\ bpc = "collect"
    /\ results # << >>
    /\ LET r == Head(results)
           ok == ~r.Error /\ r.StatusCode >= 200 /\ r.StatusCode < 400
       IN  benchResults' =
              [benchResults EXCEPT
                 !.SuccessfulRequests = IF ok THEN @ + 1 ELSE @,
                 !.FailedRequests = IF ok THEN @ ELSE @ + 1,
                 !.StatusCodes[r.StatusCode] = @ + 1]
    /\ results' = Tail(results)
    /\ UNCHANGED <<config, methods, jobChan, jobChanClosed, resultsClosed,
                   wg, bpc, started, sent, wpc, job, pending, taken, yielded,
                   panicked>>

\* The range over the closed, empty channel ends and runBenchmark returns
\* (176-186).
ReturnResults ==
    /\ ~panicked
    /\ bpc = "collect"
    /\ results = << >>
    /\ resultsClosed
    /\ bpc' = "done"
    /\ UNCHANGED <<config, methods, jobChan, jobChanClosed, results,
                   resultsClosed, wg, started, sent, benchResults, wpc, job,
                   pending, taken, yielded, panicked>>

\* A worker takes a job from jobChan and builds its request (197-227), the
\* salary and year ranges being non-empty as those of the default flags.  A
\* GET whose request cannot be built gives a result with the error; for a
\* POST req.Header.Set (217) runs before err is looked at, on a nil request:
\* the worker panics and the process ends.
Receive(w) ==
    /\ ~panicked
    /\ wpc[w] = "range"
    /\ jobChan # << >>
    /\ LET j == Head(jobChan)
       IN  /\ jobChan' = Tail(jobChan)
           /\ job' = [job EXCEPT ![w] = j]
           /\ taken' = [taken EXCEPT ![j.index] = @ + 1]
           /\ IF NewRequest(j.method, config.Host)
              THEN /\ wpc' = [wpc EXCEPT ![w] = "Do"]
                   /\ UNCHANGED <<pending, panicked>>
              ELSE IF j.method = "POST"
              THEN /\ panicked' = TRUE
                   /\ UNCHANGED <<wpc, pending>>
              ELSE /\ pending' = [pending EXCEPT ![w] =
                                    RequestResult(j.index, j.method, 0, TRUE)]
                   /\ wpc' = [wpc EXCEPT ![w] = "publish"]
                   /\ panicked' = panicked
    /\ UNCHANGED <<config, methods, jobChanClosed, results, resultsClosed,
                   wg, bpc, started, sent, benchResults, yielded>>

\* client.Do(req) returns (229-249).
Do(w) ==
    /\ ~panicked
    /\ wpc[w] = "Do"
    /\ \E o \in Outcomes :
          pending' = [pending EXCEPT ![w] =
                        RequestResult(job[w].index, job[w].method, o[1], o[2])]
    /\ wpc' = [wpc EXCEPT ![w] = "publish"]
    /\ UNCHANGED <<config, methods, jobChan, jobChanClosed, results,
                   resultsClosed, wg, bpc, started, sent, benchResults, job,
                   taken, yielded, panicked>>

\* results <- result (221-225, 251): waits while the buffer is full.
Publish(w) ==
    /\ ~panicked
    /\ wpc[w] = "publish"
    /\ Len(results) < capacity
    /\ results' = Append(results, pending[w])
    /\ yielded' = [yielded EXCEPT ![pending[w].index] = @ + 1]
    /\ wpc' = [wpc EXCEPT ![w] = "range"]
    /\ UNCHANGED <<config, methods, jobChan, jobChanClosed, resultsClosed,
                   wg, bpc, started, sent, benchResults, job, pending, taken,
                   panicked>>

\* The range over the closed, empty jobChan ends: the worker returns and
\* the deferred wg.Done() runs (190).
Done(w) ==
    /\ ~panicked
    /\ wpc[w] = "range"
    /\ jobChan = << >>
    /\ jobChanClosed
    /\ wpc' = [wpc EXCEPT ![w] = "done"]
    /\ wg' = wg - 1
    /\ UNCHANGED <<config, methods, jobChan, jobChanClosed, results,
                   resultsClosed, bpc, started, sent, benchResults, job,
                   pending, taken, yielded, panicked>>

NextBench ==
    \/ StartWorker /\ UNCHANGED <<serverVars, logVars>>
    \/ Send /\ UNCHANGED <<serverVars, logVars>>
    \/ CloseJobs /\ UNCHANGED <<serverVars, logVars>>
    \/ WaitAndClose /\ UNCHANGED <<serverVars, logVars>>
    \/ Collect /\ UNCHANGED <<serverVars, logVars>>
    \/ ReturnResults /\ UNCHANGED <<serverVars, logVars>>
    \/ \E w \in Workers : Receive(w) /\ UNCHANGED <<serverVars, logVars>>
    \/ \E w \in Workers : Do(w) /\ UNCHANGED <<serverVars, logVars>>
    \/ \E w \in Workers : Publish(w) /\ UNCHANGED <<serverVars, logVars>>
    \/ \E w \in Workers : Done(w) /\ UNCHANGED <<serverVars, logVars>>

\* Every goroutine that can take a step takes one, and every HTTP request
\* returns (the client of a worker has a timeout, 192-194).
BenchFairness ==
    /\ WF_vars(StartWorker /\ UNCHANGED <<serverVars, logVars>>)
    /\ WF_vars(Send /\ UNCHANGED <<serverVars, logVars>>)
    /\ WF_vars(CloseJobs /\ UNCHANGED <<serverVars, logVars>>)
    /\ WF_vars(WaitAndClose /\ UNCHANGED <<serverVars, logVars>>)
    /\ WF_vars(Collect /\ UNCHANGED <<serverVars, logVars>>)
    /\ WF_vars(ReturnResults /\ UNCHANGED <<serverVars, logVars>>)
    /\ \A w \in Workers :
          /\ WF_vars(Receive(w) /\ UNCHANGED <<serverVars, logVars>>)
          /\ WF_vars(Do(w) /\ UNCHANGED <<serverVars, logVars>>)
          /\ WF_vars(Publish(w) /\ UNCHANGED <<serverVars, logVars>>)
          /\ WF_vars(Done(w) /\ UNCHANGED <<serverVars, logVars>>)

SpecBench == InitBench /\ [][NextBench]_vars /\ BenchFairness

TypeOK ==
    /\ cbConfig \in Configs \cup SeqConfigs
    /\ state \in States \cup {NoState}
    /\ generation \in Nat
    /\ expiry \in Int
    /\ now \in 0..MaxNow
    /\ pc \in [Callers -> {"idle", "before", "req", "after", "ret"}]
    /\ mutex \in {0} \cup Callers
    /\ calls \in Nat

\* FetchTaxData's error for each error of cb.Execute (463-478).
FetchTaxDataError(e) ==
    CASE e = ErrNone -> "nil"
      [] e = ErrOpenState -> "unavailable (circuit open)"
      [] e = ErrTooManyRequests -> "unavailable: too many concurrent requests"
      [] OTHER -> "tax calculator service error"

\* ------------------------------------------------- steps, as seen from outside
\* Caller c enters FetchTaxData in this step.
Arrives(c) == pc[c] = "idle" /\ pc'[c] # "idle"
\* ... and is admitted: its operation is invoked.
Admitted(c) == pc[c] = "idle" /\ pc'[c] = "req" /\ invoked'[c] = 1
\* ... or is rejected with error e, its operation not invoked.
Rejected(c, e) ==
    pc[c] = "idle" /\ pc'[c] = "ret" /\ err'[c] = e /\ invoked'[c] = 0
\* The operation of caller c completes in this step.
Fails(c) == pc[c] = "req" /\ pc'[c] = "ret" /\ err'[c] = ErrFetch
Succeeds(c) == pc[c] = "req" /\ pc'[c] = "ret" /\ err'[c] = ErrNone
\* The call of c was admitted in the current period (generation).
InPeriod(c) == before[c] = generation
\* Calls admitted in the current period whose operation is in flight.
InFlightNow == {c \in Callers : pc[c] = "req" /\ InPeriod(c)}
\* Calls completed and counted in the current period.
Completed == counts.TotalSuccesses + counts.TotalFailures
\* f failures out of n requests reach the configured FailureRatio.
RatioReached(f, n) ==
    f * cbConfig.FailureRatio[2] >= cbConfig.FailureRatio[1] * n

NumFailed(h) == Cardinality({i \in 1..Len(h) : ~h[i]})

\* Five sequential calls have completed, at least three of them failed, and
\* no sixth call has been made.
FiveCallsThreeFailed ==
    calls = 5 /\ Len(hist) = 5 /\ NumFailed(hist) >= 3

C3_OpenRejects ==
    /\ [][\A c \in Callers :
            Arrives(c) /\ state = StateOpen /\ now - openedAt < cbConfig.Timeout
            => /\ Rejected(c, ErrOpenState)
               /\ FetchTaxDataError(err'[c]) = "unavailable (circuit open)"
               /\ counts' = counts /\ state' = state
               /\ generation' = generation /\ expiry' = expiry]_vars
    /\ [](\A c \in Callers :
            pc[c] = "ret" /\ err[c] = ErrOpenState => invoked[c] = 0)

\* A call has just been rejected by the Open breaker, within the timeout.
C3_Witness ==
    /\ state = StateOpen /\ now - openedAt < cbConfig.Timeout
    /\ \E c \in Callers :
          pc[c] = "ret" /\ err[c] = ErrOpenState /\ invoked[c] = 0

\* ------------------------------------------------- C4
\* An Open -> Half-Open transition happens inside a step of some call.
LazyHalfOpen ==
    [][state = StateOpen /\ state' # StateOpen
        => state' = StateHalfOpen /\ \E c \in Callers : pc'[c] # pc[c]]_vars

\* C4 as stated: once now - openedAt >= timeoutSeconds, the next call
\* arriving at an Open breaker is admitted, its operation invoked, and the
\* state becomes Half-Open; the transition happens on a call only.
C4_AdmitsAtTimeout ==
    /\ [][\A c \in Callers :
            Arrives(c) /\ state = StateOpen /\ now - openedAt >= cbConfig.Timeout
            => Admitted(c) /\ state' = StateHalfOpen]_vars
    /\ LazyHalfOpen

\* What the breaker does instead: a call arriving at an Open breaker is
\* admitted, its operation invoked and the state made Half-Open, exactly when
\* now - openedAt is greater than the timeout in force (timeoutSeconds, or 60
\* seconds when timeoutSeconds is 0), however many calls were rejected before;
\* the transition happens only inside a step of a call, never on a timer.
C4_AdmitsAfterTimeout ==
    /\ [][\A c \in Callers :
            Arrives(c) /\ state = StateOpen
            => IF now - openedAt > timeout
               THEN Admitted(c) /\ state' = StateHalfOpen /\ trial'[c]
               ELSE Rejected(c, ErrOpenState) /\ state' = StateOpen]_vars
    /\ LazyHalfOpen

\* The first trial after the timeout is in flight in Half-Open, and an
\* earlier call is still holding the rejection it got while Open.
C4_Witness ==
    /\ state = StateHalfOpen /\ now - openedAt > timeout
    /\ counts.Requests = 1
    /\ \E c \in Callers : pc[c] = "req" /\ InPeriod(c) /\ trial[c]
    /\ \E c \in Callers : pc[c] = "ret" /\ err[c] = ErrOpenState

\* ------------------------------------------------- C5
\* C5: in Half-Open, the completion with a failure of any one trial of that
\* Half-Open period moves the breaker to Open at once (openedAt = now, Counts
\* reset), whatever number of trials of the period succeeded before it; and a
\* Half-Open period starts with no success counted, so those successes do
\* not count toward closing in a later Half-Open period.
C5_FailedTrialReopens ==
    /\ [][\A c \in Callers :
            Fails(c) /\ state = StateHalfOpen /\ InPeriod(c)
            => /\ state' = StateOpen /\ openedAt' = now
               /\ expiry' = now + timeout
               /\ counts' = ZeroCounts]_vars
    /\ [][state # StateHalfOpen /\ state' = StateHalfOpen
            => counts'.TotalSuccesses = 0 /\ counts'.ConsecutiveSuccesses = 0]_vars

\* With a cap of 2, the breaker opened on the first call, then in Half-Open
\* one trial succeeded and the other failed: the breaker is Open again.
C5_Witness ==
    /\ state = StateOpen /\ generation = 4 /\ openedAt = now /\ calls = 3
    /\ cbConfig.MaxHalfOpenReqs = 2
    /\ \E c \in Callers : pc[c] = "ret" /\ err[c] = ErrNone
    /\ \E c \in Callers : pc[c] = "ret" /\ err[c] = ErrFetch

\* ------------------------------------------------- C6
\* Calls admitted in some Half-Open period whose operation is in flight.
TrialsInFlight == {c \in Callers : pc[c] = "req" /\ trial[c]}

C8_ClosesAtMaxSuccesses ==
    /\ [][state = StateHalfOpen =>
            ((state' = StateClosed) <=>
                \E c \in Callers :
                    /\ Succeeds(c) /\ InPeriod(c)
                    /\ counts.TotalSuccesses + 1 >= cbConfig.MaxHalfOpenReqs)]_vars
    /\ [][state # StateClosed /\ state' = StateClosed
            => /\ state = StateHalfOpen
               /\ counts.TotalSuccesses + 1 = cbConfig.MaxHalfOpenReqs
               /\ counts.TotalFailures = 0
               /\ counts' = ZeroCounts]_vars

\* Cap 2: the breaker opened, went Half-Open and, both trials having
\* succeeded, is Closed again with Counts reset.
C8_Witness ==
    /\ state = StateClosed /\ generation = 4 /\ counts = ZeroCounts
    /\ cbConfig.MaxHalfOpenReqs = 2 /\ calls = 3
    /\ \E c \in Callers : pc[c] = "ret" /\ err[c] = ErrNone

C10_TransitionResetsCounts ==
    [][state' # state
        => /\ <<state, state'>> \in {<<StateClosed, StateOpen>>,
                                    <<StateOpen, StateHalfOpen>>,
                                    <<StateHalfOpen, StateOpen>>,
                                    <<StateHalfOpen, StateClosed>>}
           /\ generation' = generation + 1
           /\ counts' = [ZeroCounts EXCEPT !.Requests =
                 IF \E c \in Callers : Admitted(c) THEN 1 ELSE 0]
           /\ (\E c \in Callers : Admitted(c))
                 => state = StateOpen /\ state' = StateHalfOpen]_vars

\* The breaker has just gone from Open to Half-Open on the arrival of a call
\* while an earlier failure was counted before it opened: Counts holds the
\* one admitted trial only.
C10_Witness ==
    /\ state = StateHalfOpen /\ generation = 3
    /\ counts = [ZeroCounts EXCEPT !.Requests = 1]
    /\ cbConfig.RequestThreshold = 2
    /\ Cardinality(InFlightNow) = 1

\* ------------------------------------------------- steps of SpecLock
\* The OnStateChange calls made so far, the running one included.
Notified == IF callback = << >> THEN notes ELSE Append(notes, callback)
\* The operation of caller c completes and afterRequest takes it in.
Completes(c) == pc[c] = "req" /\ pc'[c] = "after"
\* FetchTaxData of caller c returns in this step.
Returns(c) == pc[c] = "ret" /\ pc'[c] = "idle"
\* Caller c has been rejected by the breaker.
IsRejection(e) == e \in {ErrOpenState, ErrTooManyRequests}
\* Calls admitted in the current period and not yet taken in by afterRequest.
AdmittedNotCounted ==
    {c \in LockCallers : /\ pc[c] \in {"before", "req"}
                         /\ err[c] = ErrNone
                         /\ before[c] = generation}

\* ------------------------------------------------- C11
\* C11: every transition of the breaker produces exactly one state-change
\* notification (name, from, to) with from the state before the step, to the
\* state after it and from # to; the notifications are delivered in the
\* order of the transitions (each one is delivered before the next transition
\* can happen, and the last one names the state the breaker is in), and none
\* is produced without a transition.
C11_OneNotificationPerTransition ==
    /\ [][/\ state' # state
               => callback = << >> /\ callback' = <<cbName, state, state'>>
          /\ (callback' # callback /\ callback' # << >>) => state' # state
          /\ notes' # notes
               => /\ callback # << >> /\ callback' = << >>
                  /\ notes' = Append(notes, callback)
                  /\ state' = state]_vars
    /\ [](/\ Len(Notified) = generation - 1
          /\ \A i \in 1..Len(Notified) :
                /\ Notified[i][1] = cbName
                /\ Notified[i][2] # Notified[i][3]
                /\ Notified[i][2] = IF i = 1 THEN StateClosed
                                    ELSE Notified[i - 1][3]
          /\ Notified # << >> => Notified[Len(Notified)][3] = state)

\* Three transitions have been notified, the last one back to Closed.
C11_Witness ==
    /\ Len(notes) = 3 /\ callback = << >>
    /\ notes[3] = <<cbName, StateHalfOpen, StateClosed>>
    /\ state = StateClosed

\* ------------------------------------------------- C12
\* C12: the OnStateChange callback runs only after the breaker's mutex has
\* been released: in no reachable state is the callback running while the
\* mutex is held.
C12_CallbackOutsideLock ==
    callback # << >> => mutex = 0

\* What the program does instead: whenever the callback is running, the
\* caller whose step changed the state holds the mutex, and no other caller
\* can get a decision from the breaker.
C12_CallbackUnderLock ==
    callback # << >>
        => /\ mutex \in LockCallers
           /\ pc[mutex] \in {"before", "after"}
           /\ \A c \in LockCallers : ~ENABLED LockBefore(c)

\* The callback for the transition to Open is running under the mutex while
\* the other caller is waiting to enter.
C12_Witness ==
    /\ callback = <<cbName, StateClosed, StateOpen>>
    /\ mutex = 1 /\ pc[1] = "after" /\ pc[2] = "idle"

\* ------------------------------------------------- C13
\* C13: the breaker's mutex is never held while the wrapped operation runs:
\* only a caller inside beforeRequest or afterRequest holds it; a caller that
\* arrives while the mutex is free gets its decision whatever calls are in
\* flight; and a rejected caller has no callback to run and goes on to
\* return by its own steps alone.
C13_NoLockWhileFetching ==
    /\ \A c \in LockCallers : pc[c] = "req" => mutex # c
    /\ mutex # 0 => pc[mutex] \in {"before", "after"}
    /\ \A c \in LockCallers :
          (pc[c] = "idle" /\ mutex = 0) => ENABLED LockBefore(c)
    /\ \A c \in LockCallers :
          (pc[c] = "before" /\ err[c] # ErrNone)
              => /\ invoked[c] = 0 /\ callback = << >>
                 /\ ENABLED UnlockBefore(c)
    /\ \A c \in LockCallers : pc[c] = "ret" => ENABLED Return(c)

\* Caller 2 holds its rejection while the operation of caller 1 is still in
\* flight.
C13_Witness ==
    /\ pc[1] = "req" /\ mutex = 0
    /\ pc[2] = "ret" /\ err[2] = ErrTooManyRequests

\* ------------------------------------------------- C14
\* C14: under every interleaving there are no lost updates and no double
\* transitions.  Every admitted call is in Counts exactly once
\* (Requests = successes + failures + calls of the period not yet taken in);
\* a completion of the current period either adds one to its own total or
\* makes one transition with one notification; a completion of an earlier
\* period (the second of two failing trials, the second of two failures
\* crossing the threshold) changes nothing, apart from the Open to Half-Open
\* move that any step makes once the timeout has passed.
C14_CountedOnceOneTransition ==
    /\ [][\A c \in LockCallers :
            Completes(c) =>
              IF before[c] = generation
              THEN \/ /\ generation' = generation + 1
                      /\ state' # state
                      /\ callback' = <<cbName, state, state'>>
                   \/ /\ UNCHANGED <<state, generation>>
                      /\ callback' = << >>
                      /\ counts'.Requests = counts.Requests
                      /\ counts'.TotalSuccesses = counts.TotalSuccesses
                             + (IF err'[c] = ErrNone THEN 1 ELSE 0)
                      /\ counts'.TotalFailures = counts.TotalFailures
                             + (IF err'[c] = ErrNone THEN 0 ELSE 1)
              ELSE \/ UNCHANGED <<state, generation, counts, callback>>
                   \/ /\ state = StateOpen /\ state' = StateHalfOpen
                      /\ generation' = generation + 1
                      /\ counts' = ZeroCounts
                      /\ callback' = <<cbName, state, state'>>]_vars
    /\ [](state # StateOpen
            => counts.Requests = counts.TotalSuccesses + counts.TotalFailures
                                   + Cardinality(AdmittedNotCounted))

\* Both callers were trials of one Half-Open period and both failed: the
\* first reopened the breaker, the second has just been taken in and has
\* changed nothing.
C14_Witness ==
    /\ state = StateOpen /\ generation = 4
    /\ pc[2] = "after" /\ trial[2] /\ err[2] = ErrFetch
    /\ callback = << >> /\ Len(notes) = 3
    /\ pc[1] = "ret" /\ err[1] = ErrFetch

\* ------------------------------------------------- C15
\* C15: without a breaker every FetchTaxData call invokes the operation once
\* and directly, no call is rejected however many calls failed before, and
\* no breaker state, Counts, breaker-request counter, breaker-rejected
\* counter or state gauge is created or changed.
C15_DisabledCallsDirectly ==
    /\ [][/\ \A c \in Callers :
                Arrives(c) => pc'[c] = "req" /\ invoked'[c] = 1
          /\ UNCHANGED <<state, generation, counts, expiry, notes, gauge,
                         rejected, requests, mutex, callback>>]_vars
    /\ [](/\ state = NoState /\ gauge = NoGauge /\ counts = ZeroCounts
          /\ rejected = 0 /\ requests["true"] = 0 /\ requests["false"] = 0
          /\ \A c \in Callers :
                invoked[c] <= 1 /\ err[c] \in {ErrNone, ErrFetch})

\* Three calls have failed and the next one has been invoked all the same.
C15_Witness ==
    /\ ~cbEnabled /\ errors >= 3
    /\ \E c \in Callers : pc[c] = "req" /\ invoked[c] = 1

\* ------------------------------------------------- C16
\* C16: each FetchTaxData call invokes the operation at most once: it is
\* invoked only when beforeRequest has admitted the call, a rejected call
\* never invokes it, and once the call has its result (a failure of the
\* operation or a rejection) it only returns, with a non-nil error when
\* the result is an error.
C16_AtMostOneInvocation ==
    /\ [][\A c \in LockCallers :
            /\ invoked'[c] > invoked[c]
                 => /\ pc[c] = "before" /\ err[c] = ErrNone
                    /\ invoked[c] = 0 /\ invoked'[c] = 1
            /\ pc[c] = "ret"
                 => \/ pc'[c] = "ret" /\ invoked'[c] = invoked[c]
                    \/ /\ Returns(c)
                       /\ err[c] # ErrNone
                            => FetchTaxDataReturn(err[c]) = <<"nil", "error">>]_vars
    /\ [](\A c \in LockCallers :
            /\ invoked[c] <= 1
            /\ (pc[c] = "ret" /\ IsRejection(err[c])) => invoked[c] = 0)

\* One call holds the failure of its one invocation, the other a rejection.
C16_Witness ==
    /\ pc[1] = "ret" /\ err[1] = ErrFetch /\ invoked[1] = 1
    /\ pc[2] = "ret" /\ err[2] = ErrOpenState /\ invoked[2] = 0

\* ------------------------------------------------- C17
\* C17: a call rejected by the breaker (open, or Half-Open with the cap
\* reached) adds one to the rejection counter and nothing to the
\* request-outcome counter; a call whose operation was invoked adds one to
\* the request-outcome counter, under success=true or success=false, and
\* nothing to the rejection counter; the counters change at no other step;
\* a rejection and a failure of the operation are both returned as
\* (nil, error).
C17_RejectionsCountedApart ==
    [][/\ \A c \in LockCallers :
             Returns(c) =>
              /\ invoked[c] = 0 <=> IsRejection(err[c])
              /\ IF IsRejection(err[c])
                 THEN /\ rejected' = rejected + 1
                      /\ requests' = requests
                 ELSE /\ rejected' = rejected
                      /\ requests' =
                            [requests EXCEPT
                               ![IF err[c] = ErrNone THEN "true" ELSE "false"]
                                   = @ + 1]
              /\ err[c] # ErrNone
                   => FetchTaxDataReturn(err[c]) = <<"nil", "error">>
       /\ (rejected' # rejected \/ requests' # requests)
             => \E c \in LockCallers : Returns(c)]_vars

\* Calls of all four kinds have returned: both rejections are in the
\* rejection counter, a success and a failure in the request counter.
C17_Witness ==
    /\ rejected >= 2 /\ requests["true"] >= 1 /\ requests["false"] >= 1
    /\ \E c \in LockCallers : pc[c] = "ret" /\ err[c] = ErrTooManyRequests

\* ------------------------------------------------- CalculateTax, as specified
\* The brackets are ordered ascending by min, each has max > min, or max = 0
\* if it is the last one.
WellFormed(bs) ==
    /\ \A i \in 1..Len(bs) - 1 : bs[i].Min <= bs[i + 1].Min
    /\ \A i \in 1..Len(bs) :
          \/ bs[i].Max > bs[i].Min
          \/ bs[i].Max = 0 /\ i = Len(bs)

MinOf(a, b) == IF a <= b THEN a ELSE b

\* The sum over the brackets i..Len(bs) with min < s of
\* rate * (min(s, max) - min), max being s for the unbounded bracket.
RECURSIVE SumOfBrackets(_, _, _)
SumOfBrackets(s, bs, i) ==
    IF i > Len(bs) THEN 0
    ELSE (IF bs[i].Min < s
          THEN bs[i].Rate
                 * (MinOf(s, IF bs[i].Max = 0 THEN s ELSE bs[i].Max) - bs[i].Min)
          ELSE 0)
         + SumOfBrackets(s, bs, i + 1)

\* k thousandths is tax/salary rounded to 3 decimals: no thousandth is
\* nearer to total/(RateDen * s), and of two equally near ones it is the
\* larger.
IsRounded(k, total, s) ==
    LET twiceErr == 2 * (k * RateDen * s - total * 1000)
    IN  -(RateDen * s) < twiceErr /\ twiceErr <= RateDen * s

\* ------------------------------------------------- C18
\* C18: for every salary > 0 and every bracket list ordered ascending by min
\* (each max > min, or max = 0 for the unbounded top bracket) CalculateTax
\* returns tax = the sum over the brackets with min < salary of
\* rate * (min(salary, max) - min), max being salary for the unbounded
\* bracket, and effectiveRate = tax/salary rounded to 3 decimals; the
\* brackets [{0,30000,0.1},{30000,70000,0.2},{70000,0,0.3}] give 14000 and
\* 0.175 for salary 80000, 6000 and 0.133 for salary 45000.
C18_TaxIsSumOfBrackets ==
    (result # NoResult /\ salary > 0 /\ WellFormed(brackets))
        => /\ result[1] = Num(SumOfBrackets(salary, brackets, 1))
           /\ result[2][1] = "num"
           /\ IsRounded(result[2][2], SumOfBrackets(salary, brackets, 1), salary)
           /\ (brackets = TestBrackets /\ salary = 80000)
                 => result = <<Num(14000 * RateDen), Num(175)>>
           /\ (brackets = TestBrackets /\ salary = 45000)
                 => result = <<Num(6000 * RateDen), Num(133)>>

\* CalculateTax has returned for salary 80000 and the three test brackets.
C18_Witness ==
    /\ salary = 80000 /\ brackets = TestBrackets
    /\ result = <<Num(14000 * RateDen), Num(175)>>

\* ------------------------------------------------- C19
\* C19: for salary = 0 and any bracket list, the empty one included,
\* CalculateTax returns effectiveRate = 0 and never the result of a division
\* by zero.
C19_ZeroSalaryZeroRate ==
    (result # NoResult /\ salary = 0) => result[2] = Num(0)

\* What CalculateTax returns instead: 0/0, which is NaN.
C19_ZeroSalaryNaN ==
    (result # NoResult /\ salary = 0) => result = <<Num(0), NaN>>

\* CalculateTax has returned NaN for salary 0 and no brackets.
C19_Witness ==
    salary = 0 /\ brackets = << >> /\ result = <<Num(0), NaN>>

\* ------------------------------------------------- C20
\* C20: for every salary below or equal to the min of the first bracket
\* CalculateTax stops at the first bracket and returns tax = 0 and
\* effectiveRate = 0, whatever brackets follow.
C20_BelowFirstBracketIsZero ==
    (result # NoResult /\ brackets # << >> /\ salary <= brackets[1].Min)
        => result = <<Num(0), Num(0)>>

\* What holds instead: the tax is 0, and the effective rate is 0 unless the
\* salary is 0, when it is NaN.
C20_BelowFirstBracketNoTax ==
    (result # NoResult /\ brackets # << >> /\ salary <= brackets[1].Min)
        => result = <<Num(0), IF salary = 0 THEN NaN ELSE Num(0)>>

\* CalculateTax has returned for salary 500 and a first bracket from 1000.
C20_Witness ==
    /\ salary = 500 /\ brackets = TestBracketsFrom1000
    /\ result = <<Num(0), Num(0)>>

\* ------------------------------------------------- claims of CalculateTax, continued
\* The totalTax of CalculateTax(s, bs), in twentieths.
taxOf(s, bs) == CalculateTax(s, bs)[1][2]

\* No bracket of bs has a maximum below its minimum.
MaxNotBelowMin(bs) ==
    \A i \in 1..Len(bs) : bs[i].Max = 0 \/ bs[i].Max >= bs[i].Min

\* C21: CalculateTax is a pure function and its tax does not decrease with
\* the salary: for the brackets of the call, whatever their order and
\* bounds, no lower salary gives a higher tax than the salary of the call,
\* and calling again with the same arguments returns the same result.
C21_TaxMonotonic ==
    result # NoResult =>
        /\ \A s1 \in Salaries :
              s1 <= salary => taxOf(s1, brackets) <= result[1][2]
        /\ CalculateTax(salary, brackets) = result

\* What the code keeps: the tax does not decrease with the salary when no
\* bracket has a maximum below its minimum, sorted or not.
C21_MonotonicWhenMaxNotBelowMin ==
    result # NoResult /\ MaxNotBelowMin(brackets) =>
        /\ \A s1 \in Salaries :
              s1 <= salary => taxOf(s1, brackets) <= result[1][2]
        /\ CalculateTax(salary, brackets) = result

\* An unsorted list without such a bracket, and a salary that reaches into
\* both of its brackets.
C21_Witness ==
    /\ result # NoResult
    /\ Len(brackets) = 2
    /\ MaxNotBelowMin(brackets)
    /\ brackets[1].Min > brackets[2].Min
    /\ salary > brackets[1].Min
    /\ result[1][2] > 0

\* ------------------------------------------------- claims of doFetchTaxData
\* doFetchTaxData has returned after a round trip that gave a response.
GotResponse == fetched # << >> /\ upstream.kind = "response"

\* The status is a 2xx status.
Is2xx(st) == st >= 200 /\ st <= 299

\* The body parses as {errors: [...]} with at least one entry.
HasErrorEntries(body) ==
    /\ body.kind = "object"
    /\ body.errors.kind = "array"
    /\ Len(body.errors.items) >= 1

\* The error is the one that joins the "code: message" strings of entries.
IsJoinedErrors(e, entries) ==
    /\ e[1] = "tax calculator service error: %s"
    /\ Len(e[2]) = Len(entries)
    /\ \A i \in 1..Len(entries) :
          e[2][i] = <<entries[i].code, ": ", entries[i].message>>

\* The error is an HTTP-status error, of one of the three details.
IsStatusError(e) ==
    e[1] \in {"tax calculator service error: %s",
              "tax calculator service returned: %d - Details: %s",
              "tax calculator service returned error code: %d"}

\* C22: for a response with a non-2xx status doFetchTaxData returns no
\* brackets and an HTTP-status error whose detail is, in this order: the
\* joined "code: message" strings of all entries when the body read parses
\* as {errors: [...]} with at least one entry; else the raw body when the
\* body read is not empty; else the bare status code.
C22_StatusErrorDetail ==
    GotResponse /\ ~Is2xx(upstream.status) =>
        LET body == upstream.body
            e == fetched[2]
        IN  /\ fetched[1] = NilResponse
            /\ e # NoError
            /\ IF ~upstream.readErr /\ HasErrorEntries(body)
               THEN IsJoinedErrors(e, body.errors.items)
               ELSE IF ~upstream.readErr /\ NonEmpty(body)
               THEN e = <<"tax calculator service returned: %d - Details: %s",
                          upstream.status, body>>
               ELSE e = <<"tax calculator service returned error code: %d",
                          upstream.status>>

\* A 500 whose body carries two error entries, reported joined.
C22_Witness ==
    /\ GotResponse
    /\ upstream.status = 500
    /\ ~upstream.readErr
    /\ HasErrorEntries(upstream.body)
    /\ Len(upstream.body.errors.items) = 2
    /\ Len(fetched[2][2]) = 2

\* The body is not JSON at all.
NotJSON(body) == body.kind = "text"

\* The body is an object with a tax_brackets array of at least one entry.
HasBrackets(body) ==
    /\ body.kind = "object"
    /\ body.tax_brackets.kind = "array"
    /\ Len(body.tax_brackets.items) >= 1

\* The response pointer holds exactly the brackets of the body, in order.
HoldsBracketsOf(resp, body) ==
    /\ resp # NilResponse
    /\ Len(resp[1].TaxBrackets) = Len(body.tax_brackets.items)
    /\ \A i \in 1..Len(body.tax_brackets.items) :
          LET o == body.tax_brackets.items[i]
          IN  resp[1].TaxBrackets[i] = Bracket(o.min, o.max, o.rate)

IsParseError(e) == e = <<"failed to parse tax calculator response: %v">>

\* C23 as stated: every 2xx response (200 through 299) whose body is not
\* JSON gives the parse error, every 2xx response with a valid non-empty
\* tax_brackets body is a success, and only non-2xx statuses give an
\* HTTP-status error.
C23_Every2xxParsed ==
    GotResponse /\ ~upstream.readErr =>
        /\ Is2xx(upstream.status) /\ NotJSON(upstream.body)
              => IsParseError(fetched[2])
        /\ Is2xx(upstream.status) /\ HasBrackets(upstream.body)
              => /\ fetched[2] = NoError
                 /\ HoldsBracketsOf(fetched[1], upstream.body)
        /\ fetched[2] # NoError /\ IsStatusError(fetched[2])
              => ~Is2xx(upstream.status)

\* C23: a response with status 200 whose body is not JSON gives the parse
\* error, a response with status 200 and a valid non-empty tax_brackets body
\* is a success, and every other status, 201 to 299 included, gives an
\* HTTP-status error and no brackets.
C23_Only200Parsed ==
    GotResponse /\ ~upstream.readErr =>
        /\ upstream.status = StatusOK /\ NotJSON(upstream.body)
              => IsParseError(fetched[2])
        /\ upstream.status = StatusOK /\ HasBrackets(upstream.body)
              => /\ fetched[2] = NoError
                 /\ HoldsBracketsOf(fetched[1], upstream.body)
        /\ upstream.status # StatusOK
              => /\ fetched[1] = NilResponse
                 /\ fetched[2] # NoError
                 /\ IsStatusError(fetched[2])
        /\ fetched[2] # NoError /\ IsStatusError(fetched[2])
              => upstream.status # StatusOK

\* A 201 with a valid bracket list, answered with an HTTP-status error.
C23_Witness ==
    /\ GotResponse
    /\ ~upstream.readErr
    /\ upstream.status = 201
    /\ HasBrackets(upstream.body)
    /\ fetched[1] = NilResponse
    /\ fetched[2][1] = "tax calculator service returned: %d - Details: %s"

\* The tax_brackets the body parses to is empty: an empty array, a missing
\* field, or null.
NoBrackets(body) ==
    /\ body.kind = "object"
    /\ \/ body.tax_brackets.kind \in {"missing", "null"}
       \/ body.tax_brackets.kind = "array" /\ Len(body.tax_brackets.items) = 0

\* C24: a response of successful status (200) whose parsed tax_brackets is
\* empty gives the error "no tax brackets returned" and no response; and
\* whatever the round trip, doFetchTaxData never returns a response with an
\* empty bracket list.
C24_EmptyBracketsIsError ==
    fetched # << >> =>
        /\ (GotResponse /\ ~upstream.readErr /\ upstream.status = StatusOK
               /\ NoBrackets(upstream.body))
              => fetched = <<NilResponse,
                             <<"no tax brackets returned from tax calculator">> >>
        /\ fetched[1] # NilResponse => Len(fetched[1][1].TaxBrackets) >= 1

\* A 200 whose body has no tax_brackets field.
C24_Witness ==
    /\ GotResponse
    /\ ~upstream.readErr
    /\ upstream.status = StatusOK
    /\ upstream.body.kind = "object"
    /\ upstream.body.tax_brackets.kind = "missing"
    /\ fetched[1] = NilResponse
    /\ fetched[2] = <<"no tax brackets returned from tax calculator">>

\* ------------------------------------------------- claims of parseSalary
\* The string a request gives for a parameter: the one of the URL query,
\* or, when the query has none and the method is POST, the one of the form.
Given(r, q, f) == IF q # "" THEN q ELSE IF r.Method = "POST" THEN f ELSE ""

\* The form of the request is consulted and does not parse.
FormFails(r) ==
    r.Method = "POST" /\ r.formErr /\ (r.querySalary = "" \/ r.queryYear = "")

LastOutcome == IF hist = << >> THEN "none" ELSE hist[Len(hist)]

\* The number of requests that ended in one of the given ways.
Ended(ways) == Cardinality({i \in 1..Len(hist) : hist[i] \in ways})

\* C25: every FetchTaxData call, with or without the breaker and whatever
\* the breaker's state, returns either a non-nil response holding at least
\* one bracket and a nil error, or a nil response and a non-nil error; and
\* the result cb.Execute hands back without an error is a non-nil response.
C25_ResponseOrError ==
    /\ returned # << >> =>
          \/ /\ returned[1] # NilResponse
             /\ Len(returned[1][1].TaxBrackets) >= 1
             /\ returned[2] = NoError
          \/ /\ returned[1] = NilResponse
             /\ returned[2] # NoError
    /\ pc[1] = "ret" /\ err[1] = ErrNone =>
          fetched[1] # NilResponse /\ Len(fetched[1][1].TaxBrackets) >= 1

\* FetchTaxData has returned the rejection of the Open breaker.
C25_Witness ==
    /\ hpc = "respond"
    /\ cbEnabled /\ state = StateOpen
    /\ returned[1] = NilResponse
    /\ returned[2] # NoError
    /\ returned[2][1] # "tax calculator service error: %v"

\* C26: when FetchTaxData returned an error, a rejection or an upstream
\* error alike, the handler replies 500 with the one message "Error
\* calculating tax: ..." and neither calls CalculateTax nor counts a
\* calculation; when it returned a response the handler calls CalculateTax
\* once, on the salary parsed and the brackets returned, and counts one
\* calculation.
C26_FailureOrCalculation ==
    [][hpc = "respond" /\ hpc' = "idle" =>
         IF returned[2] # NoError
         THEN /\ reply' = <<StatusInternalServerError,
                            Response(Num(0), Num(0), Num(0),
                                     <<"Error calculating tax: ", returned[2]>>)>>
              /\ calcTotal' = calcTotal
              /\ UNCHANGED taxVars
         ELSE /\ calcTotal' = calcTotal + 1
              /\ salary' = parsed[1]
              /\ brackets' = returned[1][1].TaxBrackets
              /\ result' = CalculateTax(salary', brackets')
              /\ reply'[1] = StatusOK]_vars

\* A failed request and a rejected one, both answered with 500 and without
\* any calculation.
C26_Witness ==
    /\ hpc = "idle"
    /\ hist = <<"fetch failed", "rejected">>
    /\ reply[1] = StatusInternalServerError
    /\ reply[2].Error[1] = "Error calculating tax: "
    /\ calcTotal = 0
    /\ result = NoResult

\* C27: the URL given to FetchTaxData is the base URL when IncludeTaxYear is
\* off, whatever year the request carries, and base URL/tax-year/y when it
\* is on, y being the year of the request when that is above 0 and the
\* current year when it is absent, 0 or negative.
C27_FetchURL ==
    hpc \in {"fetch", "respond"} =>
        LET Y == Given(request, request.queryYear, request.formYear)
            year == IF Y = "" THEN 0 ELSE IntValue[Y]
        IN  IF includeTaxYear
            THEN /\ Len(taxCalcURL) = 3
                 /\ taxCalcURL[1] = BaseURL
                 /\ taxCalcURL[2] = "/tax-year/"
                 /\ taxCalcURL[3] = IF year > 0 THEN year ELSE CurrentYear
            ELSE taxCalcURL = <<BaseURL>>

\* A request for the year -1 with IncludeTaxYear on: the current year.
C27_Witness ==
    /\ hpc = "fetch"
    /\ includeTaxYear
    /\ request.queryYear = "-1"
    /\ taxCalcURL = <<BaseURL, "/tax-year/", CurrentYear>>

\* ------------------------------------------------- C29
\* C29 as stated: with Timeout = 0 a call arriving at an Open breaker, the
\* very next one after it opened included, is admitted as a Half-Open
\* trial.
C29_ZeroTimeoutAdmitsNext ==
    [][\A c \in Callers :
         cbConfig.Timeout = 0 /\ Arrives(c) /\ state = StateOpen
         => Admitted(c) /\ state' = StateHalfOpen /\ trial'[c]]_vars

\* What the breaker does: with Timeout = 0 it rejects every call arriving
\* within defaultTimeout seconds of the opening.
C29_ZeroTimeoutRejects ==
    [][\A c \in Callers :
         /\ cbConfig.Timeout = 0 /\ Arrives(c) /\ state = StateOpen
         /\ now - openedAt <= defaultTimeout
         => Rejected(c, ErrOpenState) /\ state' = StateOpen]_vars

\* A call rejected by a breaker with Timeout = 0 in the second it opened.
C29_Witness ==
    /\ cbConfig.Timeout = 0
    /\ state = StateOpen /\ now = openedAt
    /\ \E c \in Callers : pc[c] = "ret" /\ err[c] = ErrOpenState

\* ------------------------------------------------- C30
\* C30 as stated: TaxServiceErrors is incremented once for every handled
\* request whose fetch ended in an error and not at all for the others, so
\* between requests it equals the number of requests whose fetch failed.
C30_OneErrorPerFailedFetch ==
    hpc = "idle" => errors = Ended({"fetch failed", "rejected"})

\* What the code counts: an upstream failure twice, once in FetchTaxData and
\* once in Handle; a rejection once, in Handle; nothing else.
C30_UpstreamFailuresCountedTwice ==
    hpc = "idle" => errors = 2 * Ended({"fetch failed"}) + Ended({"rejected"})

\* One request, failed upstream, and the counter at 2.
C30_Witness ==
    /\ hpc = "idle"
    /\ hist = <<"fetch failed">>
    /\ errors = 2

\* ------------------------------------------------- C32
\* The completion of caller c belongs to a period that has ended.
Stale(c) == Completes(c) /\ before[c] # generation

\* C32: a call admitted in one period whose operation completes after the
\* breaker has left that period has no effect on Counts or state, whether it
\* failed or succeeded: a failure of a call admitted while Closed does not
\* reopen a Half-Open breaker, a success of a trial of an earlier Half-Open
\* period does not count toward closing.  The step leaves state, generation
\* and Counts as they are; the one thing it can do is what every access to
\* the breaker does once the timeout of an Open breaker has passed, the move
\* to Half-Open with fresh Counts, and it does that whatever its outcome.
C32_StaleCompletionIgnored ==
    [][\A c \in LockCallers :
          Stale(c) =>
             IF state = StateOpen /\ Before(expiry, now)
             THEN /\ state' = StateHalfOpen
                  /\ generation' = generation + 1
                  /\ counts' = ZeroCounts
             ELSE UNCHANGED <<state, generation, counts, expiry>>]_vars

\* Caller 1 was admitted while the breaker was Closed; the breaker has since
\* opened and become Half-Open, and the failure of caller 1 has just been
\* taken in: the breaker is still Half-Open and nothing was notified.
C32_Witness ==
    /\ pc[1] = "after" /\ err[1] = ErrFetch /\ ~trial[1]
    /\ generation = before[1] + 2
    /\ state = StateHalfOpen /\ counts.TotalFailures = 0
    /\ callback = << >> /\ Len(notes) = 2

\* ------------------------------------------------- C33
\* The operation run under the breaker returns in this step.
OperationReturns == cbEnabled /\ pc[1] = "req" /\ pc'[1] = "ret"

\* The class of failure of a round trip, "none" for a usable answer.
FailureClass(rt) ==
    IF rt.kind # "response" THEN "network"
    ELSE IF rt.status # StatusOK THEN "status"
    ELSE IF NotJSON(rt.body) THEN "malformed body"
    ELSE IF NoBrackets(rt.body) THEN "no brackets"
    ELSE "none"

\* The breaker takes a failure in: it counts one more failure, or it opens.
FailureTakenIn ==
    \/ /\ state' = StateOpen /\ state # StateOpen
       /\ generation' = generation + 1
    \/ /\ UNCHANGED <<state, generation>>
       /\ counts'.TotalFailures = counts.TotalFailures + 1
       /\ counts'.ConsecutiveFailures = counts.ConsecutiveFailures + 1
       /\ counts'.ConsecutiveSuccesses = 0
       /\ counts'.TotalSuccesses = counts.TotalSuccesses

\* The breaker takes a success in: it counts one more success, or a
\* Half-Open breaker closes.
SuccessTakenIn ==
    \/ /\ state = StateHalfOpen /\ state' = StateClosed
       /\ generation' = generation + 1
    \/ /\ UNCHANGED <<state, generation>>
       /\ counts'.TotalSuccesses = counts.TotalSuccesses + 1
       /\ counts'.ConsecutiveFailures = 0
       /\ counts'.TotalFailures = counts.TotalFailures

\* C33: every non-nil error of the fetch operation is a failure for the
\* breaker, whatever its class: a network error, a status other than 200 (a
\* 4xx answer included), a malformed body and an empty bracket set each give
\* a non-nil error, and the breaker takes each of them in as one failure, in
\* the same way (the breaker after the step is onFailure of the breaker
\* before it); only a nil error is taken in as a success.
C33_EveryErrorIsAFailure ==
    [][OperationReturns =>
          /\ (FailureClass(upstream') # "none") <=> (fetched'[2] # NoError)
          /\ IF fetched'[2] # NoError
             THEN /\ FailureTakenIn
                  /\ LET cb1 == onFailure(currentState(CB, now), now)
                     IN  /\ state' = cb1.state
                         /\ counts' = cb1.counts
                         /\ generation' = cb1.generation
             ELSE SuccessTakenIn]_vars

\* A 404 answer, which the request caused, has opened the breaker.
C33_Witness ==
    /\ cbEnabled /\ pc[1] = "ret" /\ err[1] = ErrFetch
    /\ upstream.kind = "response" /\ upstream.status = 404
    /\ state = StateOpen /\ generation = 2

\* ------------------------------------------------- C34
\* The sum of the rejection counter and of the two request counters.
BreakerCounters == rejected + requests["true"] + requests["false"]

\* The FetchTaxData calls that have not returned yet.
CallsInProgress == {c \in LockCallers : pc[c] # "idle"}

\* C34: with the breaker enabled every FetchTaxData call adds one to exactly
\* one of breaker-rejected, breaker-requests{success=true} and
\* breaker-requests{success=false}, once, when it returns, and the counters
\* change at no other step; so the three counters sum to the number of calls
\* that have returned, and to the number of calls once all have returned.
C34_OneCounterPerCall ==
    /\ [][/\ \A c \in LockCallers :
                Returns(c) =>
                   /\ BreakerCounters' = BreakerCounters + 1
                   /\ rejected' >= rejected
                   /\ \A l \in {"true", "false"} : requests'[l] >= requests[l]
          /\ BreakerCounters' # BreakerCounters
                => \E c \in LockCallers : Returns(c)]_vars
    /\ [](BreakerCounters = calls - Cardinality(CallsInProgress))

\* MaxCalls calls have returned, some rejected, some failed and some successful,
\* and no call is in progress: the three counters sum to MaxCalls.
C34_Witness ==
    /\ cbEnabled /\ CallsInProgress = {} /\ calls = MaxCalls
    /\ rejected >= 1 /\ requests["true"] >= 1 /\ requests["false"] >= 1
    /\ BreakerCounters = MaxCalls

\* ------------------------------------------------- C35
\* The encoding of a breaker state in the gauge.
Encoding(s) ==
    IF s = StateClosed THEN 1 ELSE IF s = StateHalfOpen THEN 2 ELSE 3

\* C35: the state gauge holds the encoding of the stored state (1 Closed,
\* 2 Half-Open, 3 Open).  It is 1 from construction; a transition stores the
\* new state and calls OnStateChange before the critical section ends, so
\* while that call runs the gauge still holds the encoding of the state left,
\* and once it has run, and so whenever no caller is inside the breaker, the
\* last value written is the encoding of the state the breaker is in, under
\* every interleaving of the callers.  The gauge is written by OnStateChange
\* only.
C35_GaugeIsState ==
    /\ [](IF callback = << >>
          THEN gauge = Encoding(state)
          ELSE /\ callback[3] = state
               /\ gauge = Encoding(callback[2])
               /\ mutex # 0)
    /\ [](mutex = 0 => gauge = Encoding(state))
    /\ [][gauge' # gauge
            => /\ callback # << >> /\ callback' = << >>
               /\ gauge' = Encoding(state) /\ state' = state]_vars

\* Caller 2 has failed and opened the breaker while caller 1, admitted
\* before, is still in its operation; OnStateChange has run and the critical
\* section has ended: the gauge is 3.
C35_Witness ==
    /\ state = StateOpen /\ gauge = 3 /\ mutex = 0 /\ callback = << >>
    /\ pc[1] = "req" /\ pc[2] = "ret" /\ err[2] = ErrFetch
    /\ Len(notes) = 1

\* ------------------------------------------------- C37
\* Handle takes a request in this step.
Handles == hpc = "idle" /\ (hpc' = "fetch" \/ hist' # hist)

\* The request does not parse: its salary is missing or is no number, its
\* year is given and is no integer, or its form cannot be read.
FailsParsing(r) ==
    LET S == Given(r, r.querySalary, r.formSalary)
        Y == Given(r, r.queryYear, r.formYear)
    IN  \/ S \notin DOMAIN FloatValue
        \/ Y # "" /\ Y \notin DOMAIN IntValue
        \/ FormFails(r)

\* C37: a request that fails parsing is answered with status 400 at once and
\* never reaches the breaker: FetchTaxData is not called and no fetch
\* invoked, the breaker's state, generation and Counts, the breaker-request,
\* breaker-rejected and tax-service-error counters, the calculation counter
\* and the gauge are as before, and the handler is ready for the next
\* request; and no other request is answered with 400.
C37_BadRequestStopsAtHandler ==
    /\ [][Handles =>
            IF FailsParsing(request')
            THEN /\ reply' # << >>
                 /\ reply'[1] = StatusBadRequest
                 /\ reply'[2].Error = parsed'[3]
                 /\ hpc' = "idle"
                 /\ taxCalcURL' = << >>
                 /\ UNCHANGED <<breakerVars, metricVars, fetchVars, taxVars,
                                calcTotal>>
            ELSE hpc' = "fetch" /\ reply' = << >>]_vars
    /\ [](LastOutcome = "bad request" /\ hpc = "idle"
            => /\ pc[1] = "idle" /\ invoked[1] = 0
               /\ reply[1] = StatusBadRequest
               /\ FailsParsing(request))

\* A request with an unparsable year, after one that opened the breaker: it
\* is answered with 400 and the breaker is as the failed request left it.
C37_Witness ==
    /\ hist = <<"fetch failed", "bad request">>
    /\ request.queryYear = "abc"
    /\ reply[1] = StatusBadRequest
    /\ cbEnabled /\ state = StateOpen /\ calls = 1
    /\ requests["false"] = 1 /\ rejected = 0

\* ------------------------------------------------- C36
\* The timeout of the Open breaker has elapsed.
TimeoutElapsed == state = StateOpen /\ Before(expiry, now)

\* A trial of the current Half-Open period is in its operation.
TrialAdmitted ==
    /\ state = StateHalfOpen
    /\ \E c \in LockCallers :
          pc[c] = "req" /\ trial[c] /\ before[c] = generation

\* The Half-Open breaker has admitted all the trials it admits.
Saturated == state = StateHalfOpen /\ counts.Requests >= maxRequests

\* C36: when every operation invoked returns and calls keep arriving the
\* breaker is never stuck.  An Open breaker whose timeout has elapsed
\* admits a trial, as long as a further call arrives; a Half-Open breaker
\* that has admitted maxHalfOpenRequests trials moves to Closed or to Open,
\* to Closed only by the success that completes maxHalfOpenRequests
\* successes and to Open only by a failure; so the breaker does not stay
\* saturated for ever.
C36_NeverStuck ==
    /\ (TimeoutElapsed /\ calls < MaxCalls) ~> TrialAdmitted
    /\ Saturated ~> (state \in {StateClosed, StateOpen})
    /\ ~<>[]Saturated
    /\ [][state = StateHalfOpen /\ state' # state =>
            \E c \in LockCallers :
               /\ pc[c] = "req" /\ pc'[c] = "ret" /\ before[c] = generation
               /\ IF err'[c] = ErrNone
                  THEN /\ state' = StateClosed
                       /\ counts.TotalFailures = 0
                       /\ counts.ConsecutiveSuccesses + 1 = maxRequests
                  ELSE state' = StateOpen]_vars

\* Both callers are trials of a Half-Open breaker that admits two: it is
\* saturated, and a third call would be rejected.
C36_Witness ==
    /\ Saturated /\ maxRequests = 2
    /\ \A c \in LockCallers : pc[c] = "req" /\ trial[c]
    /\ calls < MaxCalls

\* ------------------------------------------------- C31
\* The logging function f is called in this step.
Calls(f) == called' = Append(called, f)

\* The level of the messages of a logging function and the prefix of its
\* lines.
MessageLevel(f) ==
    CASE f = "Error" -> LevelError
      [] f = "Warn"  -> LevelWarn
      [] f = "Info"  -> LevelInfo
      [] f = "Debug" -> LevelDebug
Prefix(f) ==
    CASE f = "Error" -> "[ERROR] "
      [] f = "Warn"  -> "[WARN] "
      [] f = "Info"  -> "[INFO] "
      [] f = "Debug" -> "[DEBUG] "

\* C31: Debug, Info, Warn and Error write their message if and only if
\* logging is enabled and the configured level is at least the level of the
\* message, with NONE < ERROR < WARN < INFO < DEBUG, so that level NONE
\* writes none of them, and they do not end the process; Fatal ends the
\* process in every configuration, also when logging is disabled.
C31_LevelsAndFatal ==
    /\ [][/\ \A f \in {"Debug", "Info", "Warn", "Error"} :
               Calls(f) =>
                 /\ IF /\ defaultLogger.enabled
                       /\ defaultLogger.level >= MessageLevel(f)
                    THEN output' = Append(output, Prefix(f))
                    ELSE output' = output
                 /\ defaultLogger.level = LevelNone => output' = output
                 /\ exited' = exited
          /\ Calls("Fatal") => exited']_vars
    /\ [](/\ LevelNone < LevelError /\ LevelError < LevelWarn
          /\ LevelWarn < LevelInfo /\ LevelInfo < LevelDebug)

\* With logging disabled an Error call has written nothing and a Fatal call
\* has ended the process, without a line.
C31_Witness ==
    /\ ~defaultLogger.enabled
    /\ called = <<"Error", "Fatal">>
    /\ output = << >>
    /\ exited

\* ------------------------------------------------- C38
\* The workers runBenchmark has started.
StartedWorkers == {w \in Workers : wpc[w] # "off"}

\* runBenchmark is about to send a job.
Sending ==
    /\ ~panicked /\ bpc = "run"
    /\ started >= config.Concurrency /\ sent < Len(methods)

Jobs == 1..config.NumRequests

\* The sum of the per-status-code counts.
CodesCounted ==
    benchResults.StatusCodes[0] + benchResults.StatusCodes[200]
        + benchResults.StatusCodes[500]

\* The counts of benchResults add up to NumRequests.
CountsAddUp ==
    /\ benchResults.SuccessfulRequests + benchResults.FailedRequests
          = benchResults.TotalRequests
    /\ benchResults.TotalRequests = config.NumRequests
    /\ CodesCounted = config.NumRequests

\* C39 as stated: for every worker count given by -c every job is taken by
\* exactly one worker and yields exactly one result, and when runBenchmark
\* returns SuccessfulRequests + FailedRequests = TotalRequests = NumRequests
\* and the per-status-code counts sum to NumRequests.
C39_EveryJobOneResult ==
    /\ [](\A i \in Jobs : taken[i] <= 1 /\ yielded[i] <= 1)
    /\ <>(\A i \in Jobs : taken[i] = 1 /\ yielded[i] = 1)
    /\ [](bpc = "done" => CountsAddUp)

\* No job of the run is one whose request the worker cannot build without
\* panicking.
NoPanic ==
    \A i \in DOMAIN methods :
       methods[i] = "POST" => NewRequest("POST", config.Host)

\* What holds: no job is taken or answered twice; with at least one worker
\* and no POST to a host that does not parse, every job is taken once and
\* yields one result, and the counts add up when runBenchmark returns.
C39_OneResultPerJobOfAWorker ==
    /\ [](\A i \in Jobs : taken[i] <= 1 /\ yielded[i] <= 1)
    /\ (config.Concurrency >= 1 /\ NoPanic)
          => <>(\A i \in Jobs : taken[i] = 1 /\ yielded[i] = 1)
    /\ [](bpc = "done" /\ config.Concurrency >= 1 => CountsAddUp)

\* runBenchmark has returned from a run of MaxRequests requests and
\* MaxWorkers workers, with a successful and a failed request.
C39_Witness ==
    /\ bpc = "done" /\ config.Concurrency = MaxWorkers
    /\ config.NumRequests = MaxRequests
    /\ benchResults.SuccessfulRequests >= 1
    /\ benchResults.FailedRequests >= 1
    /\ CountsAddUp

====
